---- MODULE Spec2Model ----
(***************************************************************************)
(* CogniSentinel: the emotion classifier (emotion_detector.py), the Rasa   *)
(* action handlers (actions.py) and the process launcher (run_server.py).  *)
(*                                                                         *)
(* Strings whose characters the code inspects (message text, emotion       *)
(* labels, keywords, table keys, slot values) are sequences of Unicode     *)
(* code points, so that lower(), strip(), substring search and string      *)
(* equality are computed, not assumed.  Fixed message texts that           *)
(* the code only passes along are TLA+ strings.  Floating-point            *)
(* confidences are exact rationals [num, den] in lowest terms.             *)
(***************************************************************************)
EXTENDS Integers, Sequences, FiniteSets, TLC

VARIABLES
    emotion_model,    \* EmotionDetector.emotion_model: None or the loaded tagger
    latest_message,   \* tracker.latest_message: [text, intent]
    tagger_output,    \* what the tagger does with the latest text: raises, or its labels
    slots,            \* tracker slots: detected_emotion, server_connection_status
    det,              \* the last call into the EmotionDetector: inputs, paths run, outcome
    call,             \* the last handler invocation: inputs, requests, messages, outcome
    main_pc,          \* run_server.main: the statement main is at
    process,          \* the local `process` of the start_* function main is in
    processes,        \* run_server.processes: the list of child handles
    children,         \* the child processes Popen has spawned
    terminated,       \* the children terminate() has been called on
    frames            \* the running signal_handler calls: the loop index of each

vars == <<emotion_model, latest_message, tagger_output, slots, det, call,
          main_pc, process, processes, children, terminated, frames>>

\* the state of the handlers and the detector, and the state of the launcher
chatbot == <<emotion_model, latest_message, tagger_output, slots, det, call>>
launcher == <<main_pc, process, processes, children, terminated, frames>>

-----------------------------------------------------------------------------
(* Python values *)

\* Python's None; no string is equal to it (a string's elements are code
\* points, none of them negative)
None == <<-1>>

EmptyStr == <<>>

\* the tagger that flair.nn.SequenceTagger.load('en-emotion') returns
Tagger == <<"SequenceTagger", "en-emotion">>

\* The tables of the interpreter's unicodedata (Unicode 14.0.0) that str.lower()
\* and str.strip() consult, over all code points 0..1114111.

\* the code points whose lower case is one other code point, as
\* <<first, last, step, offset>>: first, first + step, ... up to last each
\* lower-case to themselves plus offset.  U+03A3 and U+0130 are not here.
LOWER_RANGES == <<
    <<65, 90, 1, 32>>, <<192, 214, 1, 32>>, <<216, 222, 1, 32>>, <<256, 302, 2, 1>>,
    <<306, 310, 2, 1>>, <<313, 327, 2, 1>>, <<330, 374, 2, 1>>, <<376, 376, 1, -121>>,
    <<377, 381, 2, 1>>, <<385, 385, 1, 210>>, <<386, 388, 2, 1>>, <<390, 390, 1, 206>>,
    <<391, 391, 1, 1>>, <<393, 394, 1, 205>>, <<395, 395, 1, 1>>, <<398, 398, 1, 79>>,
    <<399, 399, 1, 202>>, <<400, 400, 1, 203>>, <<401, 401, 1, 1>>, <<403, 403, 1, 205>>,
    <<404, 404, 1, 207>>, <<406, 406, 1, 211>>, <<407, 407, 1, 209>>, <<408, 408, 1, 1>>,
    <<412, 412, 1, 211>>, <<413, 413, 1, 213>>, <<415, 415, 1, 214>>, <<416, 420, 2, 1>>,
    <<422, 422, 1, 218>>, <<423, 423, 1, 1>>, <<425, 425, 1, 218>>, <<428, 428, 1, 1>>,
    <<430, 430, 1, 218>>, <<431, 431, 1, 1>>, <<433, 434, 1, 217>>, <<435, 437, 2, 1>>,
    <<439, 439, 1, 219>>, <<440, 440, 1, 1>>, <<444, 444, 1, 1>>, <<452, 452, 1, 2>>,
    <<453, 453, 1, 1>>, <<455, 455, 1, 2>>, <<456, 456, 1, 1>>, <<458, 458, 1, 2>>,
    <<459, 475, 2, 1>>, <<478, 494, 2, 1>>, <<497, 497, 1, 2>>, <<498, 500, 2, 1>>,
    <<502, 502, 1, -97>>, <<503, 503, 1, -56>>, <<504, 542, 2, 1>>, <<544, 544, 1, -130>>,
    <<546, 562, 2, 1>>, <<570, 570, 1, 10795>>, <<571, 571, 1, 1>>, <<573, 573, 1, -163>>,
    <<574, 574, 1, 10792>>, <<577, 577, 1, 1>>, <<579, 579, 1, -195>>, <<580, 580, 1, 69>>,
    <<581, 581, 1, 71>>, <<582, 590, 2, 1>>, <<880, 882, 2, 1>>, <<886, 886, 1, 1>>,
    <<895, 895, 1, 116>>, <<902, 902, 1, 38>>, <<904, 906, 1, 37>>, <<908, 908, 1, 64>>,
    <<910, 911, 1, 63>>, <<913, 929, 1, 32>>, <<932, 939, 1, 32>>, <<975, 975, 1, 8>>,
    <<984, 1006, 2, 1>>, <<1012, 1012, 1, -60>>, <<1015, 1015, 1, 1>>, <<1017, 1017, 1, -7>>,
    <<1018, 1018, 1, 1>>, <<1021, 1023, 1, -130>>, <<1024, 1039, 1, 80>>, <<1040, 1071, 1, 32>>,
    <<1120, 1152, 2, 1>>, <<1162, 1214, 2, 1>>, <<1216, 1216, 1, 15>>, <<1217, 1229, 2, 1>>,
    <<1232, 1326, 2, 1>>, <<1329, 1366, 1, 48>>, <<4256, 4293, 1, 7264>>, <<4295, 4295, 1, 7264>>,
    <<4301, 4301, 1, 7264>>, <<5024, 5103, 1, 38864>>, <<5104, 5109, 1, 8>>,
    <<7312, 7354, 1, -3008>>, <<7357, 7359, 1, -3008>>, <<7680, 7828, 2, 1>>,
    <<7838, 7838, 1, -7615>>, <<7840, 7934, 2, 1>>, <<7944, 7951, 1, -8>>, <<7960, 7965, 1, -8>>,
    <<7976, 7983, 1, -8>>, <<7992, 7999, 1, -8>>, <<8008, 8013, 1, -8>>, <<8025, 8031, 2, -8>>,
    <<8040, 8047, 1, -8>>, <<8072, 8079, 1, -8>>, <<8088, 8095, 1, -8>>, <<8104, 8111, 1, -8>>,
    <<8120, 8121, 1, -8>>, <<8122, 8123, 1, -74>>, <<8124, 8124, 1, -9>>, <<8136, 8139, 1, -86>>,
    <<8140, 8140, 1, -9>>, <<8152, 8153, 1, -8>>, <<8154, 8155, 1, -100>>, <<8168, 8169, 1, -8>>,
    <<8170, 8171, 1, -112>>, <<8172, 8172, 1, -7>>, <<8184, 8185, 1, -128>>,
    <<8186, 8187, 1, -126>>, <<8188, 8188, 1, -9>>, <<8486, 8486, 1, -7517>>,
    <<8490, 8490, 1, -8383>>, <<8491, 8491, 1, -8262>>, <<8498, 8498, 1, 28>>,
    <<8544, 8559, 1, 16>>, <<8579, 8579, 1, 1>>, <<9398, 9423, 1, 26>>, <<11264, 11311, 1, 48>>,
    <<11360, 11360, 1, 1>>, <<11362, 11362, 1, -10743>>, <<11363, 11363, 1, -3814>>,
    <<11364, 11364, 1, -10727>>, <<11367, 11371, 2, 1>>, <<11373, 11373, 1, -10780>>,
    <<11374, 11374, 1, -10749>>, <<11375, 11375, 1, -10783>>, <<11376, 11376, 1, -10782>>,
    <<11378, 11378, 1, 1>>, <<11381, 11381, 1, 1>>, <<11390, 11391, 1, -10815>>,
    <<11392, 11490, 2, 1>>, <<11499, 11501, 2, 1>>, <<11506, 11506, 1, 1>>, <<42560, 42604, 2, 1>>,
    <<42624, 42650, 2, 1>>, <<42786, 42798, 2, 1>>, <<42802, 42862, 2, 1>>, <<42873, 42875, 2, 1>>,
    <<42877, 42877, 1, -35332>>, <<42878, 42886, 2, 1>>, <<42891, 42891, 1, 1>>,
    <<42893, 42893, 1, -42280>>, <<42896, 42898, 2, 1>>, <<42902, 42920, 2, 1>>,
    <<42922, 42922, 1, -42308>>, <<42923, 42923, 1, -42319>>, <<42924, 42924, 1, -42315>>,
    <<42925, 42925, 1, -42305>>, <<42926, 42926, 1, -42308>>, <<42928, 42928, 1, -42258>>,
    <<42929, 42929, 1, -42282>>, <<42930, 42930, 1, -42261>>, <<42931, 42931, 1, 928>>,
    <<42932, 42946, 2, 1>>, <<42948, 42948, 1, -48>>, <<42949, 42949, 1, -42307>>,
    <<42950, 42950, 1, -35384>>, <<42951, 42953, 2, 1>>, <<42960, 42960, 1, 1>>,
    <<42966, 42968, 2, 1>>, <<42997, 42997, 1, 1>>, <<65313, 65338, 1, 32>>,
    <<66560, 66599, 1, 40>>, <<66736, 66771, 1, 40>>, <<66928, 66938, 1, 39>>,
    <<66940, 66954, 1, 39>>, <<66956, 66962, 1, 39>>, <<66964, 66965, 1, 39>>,
    <<68736, 68786, 1, 64>>, <<71840, 71871, 1, 32>>, <<93760, 93791, 1, 32>>,
    <<125184, 125217, 1, 34>> >>

\* the code points with the property Cased, as intervals <<first, last>>
CASED == <<
    <<65, 90>>, <<97, 122>>, <<170, 170>>, <<181, 181>>, <<186, 186>>, <<192, 214>>, <<216, 246>>,
    <<248, 442>>, <<444, 447>>, <<452, 659>>, <<661, 696>>, <<704, 705>>, <<736, 740>>,
    <<837, 837>>, <<880, 883>>, <<886, 887>>, <<890, 893>>, <<895, 895>>, <<902, 902>>,
    <<904, 906>>, <<908, 908>>, <<910, 929>>, <<931, 1013>>, <<1015, 1153>>, <<1162, 1327>>,
    <<1329, 1366>>, <<1376, 1416>>, <<4256, 4293>>, <<4295, 4295>>, <<4301, 4301>>, <<4304, 4346>>,
    <<4349, 4351>>, <<5024, 5109>>, <<5112, 5117>>, <<7296, 7304>>, <<7312, 7354>>, <<7357, 7359>>,
    <<7424, 7615>>, <<7680, 7957>>, <<7960, 7965>>, <<7968, 8005>>, <<8008, 8013>>, <<8016, 8023>>,
    <<8025, 8025>>, <<8027, 8027>>, <<8029, 8029>>, <<8031, 8061>>, <<8064, 8116>>, <<8118, 8124>>,
    <<8126, 8126>>, <<8130, 8132>>, <<8134, 8140>>, <<8144, 8147>>, <<8150, 8155>>, <<8160, 8172>>,
    <<8178, 8180>>, <<8182, 8188>>, <<8305, 8305>>, <<8319, 8319>>, <<8336, 8348>>, <<8450, 8450>>,
    <<8455, 8455>>, <<8458, 8467>>, <<8469, 8469>>, <<8473, 8477>>, <<8484, 8484>>, <<8486, 8486>>,
    <<8488, 8488>>, <<8490, 8493>>, <<8495, 8500>>, <<8505, 8505>>, <<8508, 8511>>, <<8517, 8521>>,
    <<8526, 8526>>, <<8544, 8575>>, <<8579, 8580>>, <<9398, 9449>>, <<11264, 11492>>,
    <<11499, 11502>>, <<11506, 11507>>, <<11520, 11557>>, <<11559, 11559>>, <<11565, 11565>>,
    <<42560, 42605>>, <<42624, 42653>>, <<42786, 42887>>, <<42891, 42894>>, <<42896, 42954>>,
    <<42960, 42961>>, <<42963, 42963>>, <<42965, 42969>>, <<42997, 42998>>, <<43000, 43002>>,
    <<43824, 43866>>, <<43868, 43880>>, <<43888, 43967>>, <<64256, 64262>>, <<64275, 64279>>,
    <<65313, 65338>>, <<65345, 65370>>, <<66560, 66639>>, <<66736, 66771>>, <<66776, 66811>>,
    <<66928, 66938>>, <<66940, 66954>>, <<66956, 66962>>, <<66964, 66965>>, <<66967, 66977>>,
    <<66979, 66993>>, <<66995, 67001>>, <<67003, 67004>>, <<67456, 67456>>, <<67459, 67461>>,
    <<67463, 67504>>, <<67506, 67514>>, <<68736, 68786>>, <<68800, 68850>>, <<71840, 71903>>,
    <<93760, 93823>>, <<119808, 119892>>, <<119894, 119964>>, <<119966, 119967>>,
    <<119970, 119970>>, <<119973, 119974>>, <<119977, 119980>>, <<119982, 119993>>,
    <<119995, 119995>>, <<119997, 120003>>, <<120005, 120069>>, <<120071, 120074>>,
    <<120077, 120084>>, <<120086, 120092>>, <<120094, 120121>>, <<120123, 120126>>,
    <<120128, 120132>>, <<120134, 120134>>, <<120138, 120144>>, <<120146, 120485>>,
    <<120488, 120512>>, <<120514, 120538>>, <<120540, 120570>>, <<120572, 120596>>,
    <<120598, 120628>>, <<120630, 120654>>, <<120656, 120686>>, <<120688, 120712>>,
    <<120714, 120744>>, <<120746, 120770>>, <<120772, 120779>>, <<122624, 122633>>,
    <<122635, 122654>>, <<125184, 125251>>, <<127280, 127305>>, <<127312, 127337>>,
    <<127344, 127369>> >>

\* the code points with the property Case_Ignorable, as intervals
CASE_IGNORABLE == <<
    <<39, 39>>, <<46, 46>>, <<58, 58>>, <<94, 94>>, <<96, 96>>, <<168, 168>>, <<173, 173>>,
    <<175, 175>>, <<180, 180>>, <<183, 184>>, <<688, 879>>, <<884, 885>>, <<890, 890>>,
    <<900, 901>>, <<903, 903>>, <<1155, 1161>>, <<1369, 1369>>, <<1375, 1375>>, <<1425, 1469>>,
    <<1471, 1471>>, <<1473, 1474>>, <<1476, 1477>>, <<1479, 1479>>, <<1524, 1524>>, <<1536, 1541>>,
    <<1552, 1562>>, <<1564, 1564>>, <<1600, 1600>>, <<1611, 1631>>, <<1648, 1648>>, <<1750, 1757>>,
    <<1759, 1768>>, <<1770, 1773>>, <<1807, 1807>>, <<1809, 1809>>, <<1840, 1866>>, <<1958, 1968>>,
    <<2027, 2037>>, <<2042, 2042>>, <<2045, 2045>>, <<2070, 2093>>, <<2137, 2139>>, <<2184, 2184>>,
    <<2192, 2193>>, <<2200, 2207>>, <<2249, 2306>>, <<2362, 2362>>, <<2364, 2364>>, <<2369, 2376>>,
    <<2381, 2381>>, <<2385, 2391>>, <<2402, 2403>>, <<2417, 2417>>, <<2433, 2433>>, <<2492, 2492>>,
    <<2497, 2500>>, <<2509, 2509>>, <<2530, 2531>>, <<2558, 2558>>, <<2561, 2562>>, <<2620, 2620>>,
    <<2625, 2626>>, <<2631, 2632>>, <<2635, 2637>>, <<2641, 2641>>, <<2672, 2673>>, <<2677, 2677>>,
    <<2689, 2690>>, <<2748, 2748>>, <<2753, 2757>>, <<2759, 2760>>, <<2765, 2765>>, <<2786, 2787>>,
    <<2810, 2815>>, <<2817, 2817>>, <<2876, 2876>>, <<2879, 2879>>, <<2881, 2884>>, <<2893, 2893>>,
    <<2901, 2902>>, <<2914, 2915>>, <<2946, 2946>>, <<3008, 3008>>, <<3021, 3021>>, <<3072, 3072>>,
    <<3076, 3076>>, <<3132, 3132>>, <<3134, 3136>>, <<3142, 3144>>, <<3146, 3149>>, <<3157, 3158>>,
    <<3170, 3171>>, <<3201, 3201>>, <<3260, 3260>>, <<3263, 3263>>, <<3270, 3270>>, <<3276, 3277>>,
    <<3298, 3299>>, <<3328, 3329>>, <<3387, 3388>>, <<3393, 3396>>, <<3405, 3405>>, <<3426, 3427>>,
    <<3457, 3457>>, <<3530, 3530>>, <<3538, 3540>>, <<3542, 3542>>, <<3633, 3633>>, <<3636, 3642>>,
    <<3654, 3662>>, <<3761, 3761>>, <<3764, 3772>>, <<3782, 3782>>, <<3784, 3789>>, <<3864, 3865>>,
    <<3893, 3893>>, <<3895, 3895>>, <<3897, 3897>>, <<3953, 3966>>, <<3968, 3972>>, <<3974, 3975>>,
    <<3981, 3991>>, <<3993, 4028>>, <<4038, 4038>>, <<4141, 4144>>, <<4146, 4151>>, <<4153, 4154>>,
    <<4157, 4158>>, <<4184, 4185>>, <<4190, 4192>>, <<4209, 4212>>, <<4226, 4226>>, <<4229, 4230>>,
    <<4237, 4237>>, <<4253, 4253>>, <<4348, 4348>>, <<4957, 4959>>, <<5906, 5908>>, <<5938, 5939>>,
    <<5970, 5971>>, <<6002, 6003>>, <<6068, 6069>>, <<6071, 6077>>, <<6086, 6086>>, <<6089, 6099>>,
    <<6103, 6103>>, <<6109, 6109>>, <<6155, 6159>>, <<6211, 6211>>, <<6277, 6278>>, <<6313, 6313>>,
    <<6432, 6434>>, <<6439, 6440>>, <<6450, 6450>>, <<6457, 6459>>, <<6679, 6680>>, <<6683, 6683>>,
    <<6742, 6742>>, <<6744, 6750>>, <<6752, 6752>>, <<6754, 6754>>, <<6757, 6764>>, <<6771, 6780>>,
    <<6783, 6783>>, <<6823, 6823>>, <<6832, 6862>>, <<6912, 6915>>, <<6964, 6964>>, <<6966, 6970>>,
    <<6972, 6972>>, <<6978, 6978>>, <<7019, 7027>>, <<7040, 7041>>, <<7074, 7077>>, <<7080, 7081>>,
    <<7083, 7085>>, <<7142, 7142>>, <<7144, 7145>>, <<7149, 7149>>, <<7151, 7153>>, <<7212, 7219>>,
    <<7222, 7223>>, <<7288, 7293>>, <<7376, 7378>>, <<7380, 7392>>, <<7394, 7400>>, <<7405, 7405>>,
    <<7412, 7412>>, <<7416, 7417>>, <<7468, 7530>>, <<7544, 7544>>, <<7579, 7679>>, <<8125, 8125>>,
    <<8127, 8129>>, <<8141, 8143>>, <<8157, 8159>>, <<8173, 8175>>, <<8189, 8190>>, <<8203, 8207>>,
    <<8216, 8217>>, <<8228, 8228>>, <<8231, 8231>>, <<8234, 8238>>, <<8288, 8292>>, <<8294, 8303>>,
    <<8305, 8305>>, <<8319, 8319>>, <<8336, 8348>>, <<8400, 8432>>, <<11388, 11389>>,
    <<11503, 11505>>, <<11631, 11631>>, <<11647, 11647>>, <<11744, 11775>>, <<11823, 11823>>,
    <<12293, 12293>>, <<12330, 12333>>, <<12337, 12341>>, <<12347, 12347>>, <<12441, 12446>>,
    <<12540, 12542>>, <<40981, 40981>>, <<42232, 42237>>, <<42508, 42508>>, <<42607, 42610>>,
    <<42612, 42621>>, <<42623, 42623>>, <<42652, 42655>>, <<42736, 42737>>, <<42752, 42785>>,
    <<42864, 42864>>, <<42888, 42890>>, <<42994, 42996>>, <<43000, 43001>>, <<43010, 43010>>,
    <<43014, 43014>>, <<43019, 43019>>, <<43045, 43046>>, <<43052, 43052>>, <<43204, 43205>>,
    <<43232, 43249>>, <<43263, 43263>>, <<43302, 43309>>, <<43335, 43345>>, <<43392, 43394>>,
    <<43443, 43443>>, <<43446, 43449>>, <<43452, 43453>>, <<43471, 43471>>, <<43493, 43494>>,
    <<43561, 43566>>, <<43569, 43570>>, <<43573, 43574>>, <<43587, 43587>>, <<43596, 43596>>,
    <<43632, 43632>>, <<43644, 43644>>, <<43696, 43696>>, <<43698, 43700>>, <<43703, 43704>>,
    <<43710, 43711>>, <<43713, 43713>>, <<43741, 43741>>, <<43756, 43757>>, <<43763, 43764>>,
    <<43766, 43766>>, <<43867, 43871>>, <<43881, 43883>>, <<44005, 44005>>, <<44008, 44008>>,
    <<44013, 44013>>, <<64286, 64286>>, <<64434, 64450>>, <<65024, 65039>>, <<65043, 65043>>,
    <<65056, 65071>>, <<65106, 65106>>, <<65109, 65109>>, <<65279, 65279>>, <<65287, 65287>>,
    <<65294, 65294>>, <<65306, 65306>>, <<65342, 65342>>, <<65344, 65344>>, <<65392, 65392>>,
    <<65438, 65439>>, <<65507, 65507>>, <<65529, 65531>>, <<66045, 66045>>, <<66272, 66272>>,
    <<66422, 66426>>, <<67456, 67461>>, <<67463, 67504>>, <<67506, 67514>>, <<68097, 68099>>,
    <<68101, 68102>>, <<68108, 68111>>, <<68152, 68154>>, <<68159, 68159>>, <<68325, 68326>>,
    <<68900, 68903>>, <<69291, 69292>>, <<69446, 69456>>, <<69506, 69509>>, <<69633, 69633>>,
    <<69688, 69702>>, <<69744, 69744>>, <<69747, 69748>>, <<69759, 69761>>, <<69811, 69814>>,
    <<69817, 69818>>, <<69821, 69821>>, <<69826, 69826>>, <<69837, 69837>>, <<69888, 69890>>,
    <<69927, 69931>>, <<69933, 69940>>, <<70003, 70003>>, <<70016, 70017>>, <<70070, 70078>>,
    <<70089, 70092>>, <<70095, 70095>>, <<70191, 70193>>, <<70196, 70196>>, <<70198, 70199>>,
    <<70206, 70206>>, <<70367, 70367>>, <<70371, 70378>>, <<70400, 70401>>, <<70459, 70460>>,
    <<70464, 70464>>, <<70502, 70508>>, <<70512, 70516>>, <<70712, 70719>>, <<70722, 70724>>,
    <<70726, 70726>>, <<70750, 70750>>, <<70835, 70840>>, <<70842, 70842>>, <<70847, 70848>>,
    <<70850, 70851>>, <<71090, 71093>>, <<71100, 71101>>, <<71103, 71104>>, <<71132, 71133>>,
    <<71219, 71226>>, <<71229, 71229>>, <<71231, 71232>>, <<71339, 71339>>, <<71341, 71341>>,
    <<71344, 71349>>, <<71351, 71351>>, <<71453, 71455>>, <<71458, 71461>>, <<71463, 71467>>,
    <<71727, 71735>>, <<71737, 71738>>, <<71995, 71996>>, <<71998, 71998>>, <<72003, 72003>>,
    <<72148, 72151>>, <<72154, 72155>>, <<72160, 72160>>, <<72193, 72202>>, <<72243, 72248>>,
    <<72251, 72254>>, <<72263, 72263>>, <<72273, 72278>>, <<72281, 72283>>, <<72330, 72342>>,
    <<72344, 72345>>, <<72752, 72758>>, <<72760, 72765>>, <<72767, 72767>>, <<72850, 72871>>,
    <<72874, 72880>>, <<72882, 72883>>, <<72885, 72886>>, <<73009, 73014>>, <<73018, 73018>>,
    <<73020, 73021>>, <<73023, 73029>>, <<73031, 73031>>, <<73104, 73105>>, <<73109, 73109>>,
    <<73111, 73111>>, <<73459, 73460>>, <<78896, 78904>>, <<92912, 92916>>, <<92976, 92982>>,
    <<92992, 92995>>, <<94031, 94031>>, <<94095, 94111>>, <<94176, 94177>>, <<94179, 94180>>,
    <<110576, 110579>>, <<110581, 110587>>, <<110589, 110590>>, <<113821, 113822>>,
    <<113824, 113827>>, <<118528, 118573>>, <<118576, 118598>>, <<119143, 119145>>,
    <<119155, 119170>>, <<119173, 119179>>, <<119210, 119213>>, <<119362, 119364>>,
    <<121344, 121398>>, <<121403, 121452>>, <<121461, 121461>>, <<121476, 121476>>,
    <<121499, 121503>>, <<121505, 121519>>, <<122880, 122886>>, <<122888, 122904>>,
    <<122907, 122913>>, <<122915, 122916>>, <<122918, 122922>>, <<123184, 123197>>,
    <<123566, 123566>>, <<123628, 123631>>, <<125136, 125142>>, <<125252, 125259>>,
    <<127995, 127999>>, <<917505, 917505>>, <<917536, 917631>>, <<917760, 917999>> >>

InIntervals(c, table) ==
    \E k \in 1..Len(table) : table[k][1] <= c /\ c <= table[k][2]

\* _PyUnicode_IsCased
IsCased(c) == InIntervals(c, CASED)

\* _PyUnicode_IsCaseIgnorable
IsCaseIgnorable(c) == InIntervals(c, CASE_IGNORABLE)

\* _PyUnicode_ToLowerFull: the lower case of one code point, a sequence of
\* code points; U+0130 gives two, an ASCII letter is a letter 32 higher
ToLowerFull(c) ==
    IF c < 128 THEN (IF c \in 65..90 THEN <<c + 32>> ELSE <<c>>)
    ELSE IF c = 304 THEN <<105, 775>>
    ELSE LET hit == {k \in 1..Len(LOWER_RANGES) :
                        /\ LOWER_RANGES[k][1] <= c /\ c <= LOWER_RANGES[k][2]
                        /\ (c - LOWER_RANGES[k][1]) % LOWER_RANGES[k][3] = 0}
         IN  IF hit = {} THEN <<c>>
             ELSE <<c + LOWER_RANGES[CHOOSE k \in hit : TRUE][4]>>

\* handle_capital_sigma: U+03A3 at s[i] lower-cases to the final sigma U+03C2
\* when a cased character comes before it and none after it, case-ignorable
\* characters skipped on both sides, and to U+03C3 otherwise
handle_capital_sigma(s, i) ==
    LET before == {j \in 1..(i - 1) : ~IsCaseIgnorable(s[j])}
        after  == {j \in (i + 1)..Len(s) : ~IsCaseIgnorable(s[j])}
        last   == CHOOSE j \in before : \A k \in before : k <= j
        first  == CHOOSE j \in after : \A k \in after : j <= k
        final_sigma == /\ before # {}
                       /\ IsCased(s[last])
                       /\ after = {} \/ ~IsCased(s[first])
    IN  IF final_sigma THEN 962 ELSE 963

\* lower_ucs4: the lower case of the character at s[i]
lower_ucs4(s, i) ==
    IF s[i] = 931 THEN <<handle_capital_sigma(s, i)>> ELSE ToLowerFull(s[i])

\* do_lower: the lower case of s from position i on
RECURSIVE do_lower(_, _)
do_lower(s, i) ==
    IF i > Len(s) THEN EmptyStr ELSE lower_ucs4(s, i) \o do_lower(s, i + 1)

\* str.lower()
str_lower(s) == do_lower(s, 1)

\* the characters str.strip() removes, those for which str.isspace() holds:
\* \t \n \v \f \r, U+001C-U+001F, space, U+0085, U+00A0, U+1680,
\* U+2000-U+200A, U+2028, U+2029, U+202F, U+205F, U+3000
WHITESPACE ==
    (9..13) \cup (28..32) \cup {133, 160, 5760} \cup (8192..8202) \cup
    {8232, 8233, 8239, 8287, 12288}

RECURSIVE str_lstrip(_)
str_lstrip(s) ==
    IF s # EmptyStr /\ Head(s) \in WHITESPACE THEN str_lstrip(Tail(s)) ELSE s

RECURSIVE str_rstrip(_)
str_rstrip(s) ==
    IF s # EmptyStr /\ s[Len(s)] \in WHITESPACE
    THEN str_rstrip(SubSeq(s, 1, Len(s) - 1))
    ELSE s

\* str.strip()
str_strip(s) == str_rstrip(str_lstrip(s))

\* `sub in s` on two strings
str_contains(sub, s) ==
    \E i \in 1..(Len(s) - Len(sub) + 1) : \A j \in 1..Len(sub) : s[i + j - 1] = sub[j]

\* truth value of `not x` for x a string or None
py_not(x) == x = None \/ x = EmptyStr

-----------------------------------------------------------------------------
(* Exact arithmetic for the confidence scores *)

RECURSIVE GCD(_, _)
GCD(a, b) == IF b = 0 THEN a ELSE GCD(b, a % b)

Rat(n, d) == LET g == GCD(n, d) IN [num |-> n \div g, den |-> d \div g]

RatAdd(a, b) == Rat(a.num * b.den + b.num * a.den, a.den * b.den)
RatMul(a, b) == Rat(a.num * b.num, a.den * b.den)
RatLess(a, b) == a.num * b.den < b.num * a.den
RatMin(a, b) == IF RatLess(b, a) THEN b ELSE a

-----------------------------------------------------------------------------
(* emotion_detector.py *)

joy      == <<106, 111, 121>>   \* "joy"
sadness  == <<115, 97, 100, 110, 101, 115, 115>>   \* "sadness"
anger    == <<97, 110, 103, 101, 114>>   \* "anger"
fear     == <<102, 101, 97, 114>>   \* "fear"
neutral  == <<110, 101, 117, 116, 114, 97, 108>>   \* "neutral"

\* EMOTION_KEYWORDS, in the dict's insertion order
EMOTION_KEYWORDS == <<
    [emotion |-> joy, keywords |-> <<
        <<104, 97, 112, 112, 121>>,   \* "happy"
        <<103, 108, 97, 100>>,   \* "glad"
        <<106, 111, 121>>,   \* "joy"
        <<101, 120, 99, 105, 116, 101, 100>>,   \* "excited"
        <<112, 108, 101, 97, 115, 101, 100>>,   \* "pleased"
        <<100, 101, 108, 105, 103, 104, 116, 101, 100>>,   \* "delighted"
        <<99, 111, 110, 116, 101, 110, 116>>,   \* "content"
        <<99, 104, 101, 101, 114, 102, 117, 108>>,   \* "cheerful"
        <<116, 104, 114, 105, 108, 108, 101, 100>>,   \* "thrilled"
        <<119, 111, 110, 100, 101, 114, 102, 117, 108>>   \* "wonderful"
    >>],
    [emotion |-> sadness, keywords |-> <<
        <<115, 97, 100>>,   \* "sad"
        <<117, 110, 104, 97, 112, 112, 121>>,   \* "unhappy"
        <<100, 101, 112, 114, 101, 115, 115, 101, 100>>,   \* "depressed"
        <<100, 111, 119, 110>>,   \* "down"
        <<109, 105, 115, 101, 114, 97, 98, 108, 101>>,   \* "miserable"
        <<104, 101, 97, 114, 116, 98, 114, 111, 107, 101, 110>>,   \* "heartbroken"
        <<103, 108, 111, 111, 109, 121>>,   \* "gloomy"
        <<100, 105, 115, 97, 112, 112, 111, 105, 110, 116, 101, 100>>,   \* "disappointed"
        <<117, 112, 115, 101, 116>>,   \* "upset"
        <<103, 114, 105, 101, 102>>   \* "grief"
    >>],
    [emotion |-> anger, keywords |-> <<
        <<97, 110, 103, 114, 121>>,   \* "angry"
        <<109, 97, 100>>,   \* "mad"
        <<102, 117, 114, 105, 111, 117, 115>>,   \* "furious"
        <<105, 114, 114, 105, 116, 97, 116, 101, 100>>,   \* "irritated"
        <<97, 110, 110, 111, 121, 101, 100>>,   \* "annoyed"
        <<102, 114, 117, 115, 116, 114, 97, 116, 101, 100>>,   \* "frustrated"
        <<111, 117, 116, 114, 97, 103, 101, 100>>,   \* "outraged"
        <<101, 110, 114, 97, 103, 101, 100>>,   \* "enraged"
        <<104, 111, 115, 116, 105, 108, 101>>,   \* "hostile"
        <<98, 105, 116, 116, 101, 114>>   \* "bitter"
    >>],
    [emotion |-> fear, keywords |-> <<
        <<97, 102, 114, 97, 105, 100>>,   \* "afraid"
        <<115, 99, 97, 114, 101, 100>>,   \* "scared"
        <<102, 114, 105, 103, 104, 116, 101, 110, 101, 100>>,   \* "frightened"
        <<116, 101, 114, 114, 105, 102, 105, 101, 100>>,   \* "terrified"
        <<97, 110, 120, 105, 111, 117, 115>>,   \* "anxious"
        <<119, 111, 114, 114, 105, 101, 100>>,   \* "worried"
        <<110, 101, 114, 118, 111, 117, 115>>,   \* "nervous"
        <<112, 97, 110, 105, 99, 107, 101, 100>>,   \* "panicked"
        <<115, 116, 114, 101, 115, 115, 101, 100>>,   \* "stressed"
        <<117, 110, 101, 97, 115, 121>>   \* "uneasy"
    >>],
    [emotion |-> neutral, keywords |-> <<
        <<111, 107, 97, 121>>,   \* "okay"
        <<102, 105, 110, 101>>,   \* "fine"
        <<110, 101, 117, 116, 114, 97, 108>>,   \* "neutral"
        <<110, 111, 114, 109, 97, 108>>,   \* "normal"
        <<97, 118, 101, 114, 97, 103, 101>>,   \* "average"
        <<115, 111, 45, 115, 111>>   \* "so-so"
    >>]
>>

\* line 52 without the strip() test
is_blank_unstripped(text) == py_not(text)

\* line 52: `not text or text.strip() == ""`
is_blank(text) == py_not(text) \/ str_strip(text) = EmptyStr

\* lines 106-109, inner loop: how many of keywords[i..] occur in text
RECURSIVE count_keywords(_, _, _)
count_keywords(keywords, text, i) ==
    IF i > Len(keywords) THEN 0
    ELSE (IF str_contains(keywords[i], text) THEN 1 ELSE 0)
         + count_keywords(keywords, text, i + 1)

\* lines 103-109, outer loop: the scores of categories k.., in the dict's order
RECURSIVE scores_from(_, _)
scores_from(k, text) ==
    IF k > Len(EMOTION_KEYWORDS) THEN <<>>
    ELSE <<[emotion |-> EMOTION_KEYWORDS[k].emotion,
            score   |-> count_keywords(EMOTION_KEYWORDS[k].keywords, text, 1)]>>
         \o scores_from(k + 1, text)

\* lines 103-109: emotion_scores
emotion_scores(text) == scores_from(1, text)

\* lines 115-118 with `>=` for `>`: the last category at the maximum wins
RECURSIVE highest_score_last_wins(_, _, _)
highest_score_last_wins(scores, k, best) ==
    IF k > Len(scores) THEN best
    ELSE highest_score_last_wins(scores, k + 1,
            IF scores[k].score >= best.max_score
            THEN [max_score |-> scores[k].score, detected_emotion |-> scores[k].emotion]
            ELSE best)

\* lines 115-118: the loop that keeps the first strictly greater score
RECURSIVE highest_score(_, _, _)
highest_score(scores, k, best) ==
    IF k > Len(scores) THEN best
    ELSE highest_score(scores, k + 1,
            IF scores[k].score > best.max_score
            THEN [max_score |-> scores[k].score, detected_emotion |-> scores[k].emotion]
            ELSE best)

\* line 121: sum(emotion_scores.values())
RECURSIVE sum_scores(_, _)
sum_scores(scores, k) ==
    IF k > Len(scores) THEN 0 ELSE scores[k].score + sum_scores(scores, k + 1)

\* lines 122-125 scaled to [0.5, 1.0] and left uncapped
keyword_confidence_uncapped(max_score, total_matches) ==
    IF total_matches > 0
    THEN RatAdd(Rat(1, 2), RatMul(Rat(max_score, total_matches), Rat(1, 2)))
    ELSE Rat(1, 2)

\* lines 122-125
keyword_confidence(max_score, total_matches) ==
    IF total_matches > 0
    THEN RatMin(Rat(9, 10),
                RatAdd(Rat(1, 2), RatMul(Rat(max_score, total_matches), Rat(4, 10))))
    ELSE Rat(1, 2)

\* EmotionDetector._detect_with_keywords: <<emotion, confidence>>
_detect_with_keywords(text) ==
    LET scores == emotion_scores(str_lower(text))
        best   == highest_score(scores, 1, [max_score |-> 0, detected_emotion |-> neutral])
    IN  [emotion    |-> best.detected_emotion,
         confidence |-> keyword_confidence(best.max_score, sum_scores(scores, 1))]

\* What Sentence(text) / emotion_model.predict / sentence.get_labels() do on one
\* call: raise, or leave a (possibly empty) ranked list of labels [value, score].
Raises == [kind |-> "raises"]
Predicts(labels) == [kind |-> "labels", labels |-> labels]

\* lines 56-81 reporting the label as the tagger spelled it
flair_path_unlowered(model, output) ==
    IF model = None THEN [ran |-> FALSE, done |-> FALSE, caught |-> FALSE]
    ELSE IF output.kind = "raises" THEN [ran |-> TRUE, done |-> FALSE, caught |-> TRUE]
    ELSE IF Len(output.labels) > 0
    THEN [ran |-> TRUE, done |-> TRUE, caught |-> FALSE,
          ret |-> [emotion      |-> output.labels[1].value,
                   confidence   |-> output.labels[1].score,
                   method       |-> "flair",
                   all_emotions |-> [i \in 1..Len(output.labels) |->
                                       [emotion    |-> output.labels[i].value,
                                        confidence |-> output.labels[i].score]]]]
    ELSE [ran |-> TRUE, done |-> FALSE, caught |-> FALSE]

\* lines 56-81: the model path.  done = TRUE when it returned a result.
flair_path(model, output) ==
    IF model = None THEN [ran |-> FALSE, done |-> FALSE, caught |-> FALSE]
    ELSE IF output.kind = "raises" THEN [ran |-> TRUE, done |-> FALSE, caught |-> TRUE]
    ELSE IF Len(output.labels) > 0
    THEN [ran |-> TRUE, done |-> TRUE, caught |-> FALSE,
          ret |-> [emotion      |-> str_lower(output.labels[1].value),
                   confidence   |-> output.labels[1].score,
                   method       |-> "flair",
                   all_emotions |-> [i \in 1..Len(output.labels) |->
                                       [emotion    |-> str_lower(output.labels[i].value),
                                        confidence |-> output.labels[i].score]]]]
    ELSE [ran |-> TRUE, done |-> FALSE, caught |-> FALSE]

\* EmotionDetector.detect_emotion.  ran: the detection paths that were executed.
detect_emotion(model, text, output) ==
    IF is_blank(text)
    THEN [raised |-> FALSE, ran |-> {},
          ret |-> [emotion |-> neutral, confidence |-> Rat(0, 1), method |-> "default"]]
    ELSE LET f == flair_path(model, output) IN
         IF f.done
         THEN [raised |-> FALSE, ran |-> {"flair"}, ret |-> f.ret]
         ELSE LET k == _detect_with_keywords(text) IN
              [raised |-> FALSE,
               ran |-> (IF f.ran THEN {"flair"} ELSE {}) \cup {"keywords"},
               ret |-> [emotion |-> k.emotion, confidence |-> k.confidence,
                        method |-> "keywords"]]

-----------------------------------------------------------------------------
(* actions.py *)

THERAPY_TECHNIQUES ==
    (sadness :> <<
        "Practice self-compassion by treating yourself with the same kindness you'd offer to a friend.",
        "Try journaling about your feelings to help process them.",
        "Engage in light physical activity like walking, which can help improve your mood.",
        "Connect with a supportive friend or family member.",
        "Remember that emotions are temporary and will pass with time."
    >>) @@
    (anger :> <<
        "Take deep breaths, counting to 10 before responding.",
        "Try the 5-4-3-2-1 grounding technique to calm your nervous system.",
        "Consider the situation from the other person's perspective.",
        "Express your feelings using 'I' statements rather than accusations.",
        "Step away from the situation temporarily if possible to cool down."
    >>) @@
    (fear :> <<
        "Practice mindful breathing to center yourself in the present moment.",
        "Challenge catastrophic thinking by examining the evidence for your fears.",
        "Break overwhelming tasks into smaller, manageable steps.",
        "Visualize yourself successfully handling the situation you fear.",
        "Remember past situations where you successfully overcame your fears."
    >>) @@
    (joy :> <<
        "Savor this positive moment by being fully present in it.",
        "Express gratitude for the good things in your life.",
        "Share your happiness with others to strengthen connections.",
        "Reflect on what contributed to this positive feeling.",
        "Use this positive energy to tackle something challenging."
    >>) @@
    (neutral :> <<
        "Practice mindfulness to become more aware of your thoughts and feelings.",
        "Set small, achievable goals to create a sense of accomplishment.",
        "Explore activities that have brought you joy in the past.",
        "Consider starting a gratitude practice to notice positive aspects of your life.",
        "Take care of your physical needs like sleep, nutrition, and exercise."
    >>)

EMPATHETIC_RESPONSES ==
    (sadness :> <<
        "I hear that you're feeling down right now. That's completely valid, and I'm here to listen.",
        "It sounds like you're going through a difficult time. Remember that it's okay to feel sad sometimes.",
        "I'm sorry you're feeling this way. Would it help to talk more about what's troubling you?",
        "When we feel sad, it can be overwhelming. Let's take it one step at a time together.",
        "I understand that sadness can feel heavy. You don't have to carry that weight alone."
    >>) @@
    (anger :> <<
        "I can sense your frustration. It's completely natural to feel angry sometimes.",
        "Your feelings are valid. Would it help to explore what's behind this anger?",
        "It sounds like this situation has really upset you, and that's understandable.",
        "Anger often comes from feeling unheard or disrespected. I'm here to listen to you.",
        "I appreciate you sharing these strong feelings with me. Let's work through this together."
    >>) @@
    (fear :> <<
        "It's okay to feel anxious or scared. These feelings are trying to protect you.",
        "I hear that you're worried. Would it help to talk about what's causing this fear?",
        "Feeling anxious can be really uncomfortable. You're brave for acknowledging these feelings.",
        "When we're afraid, our minds often focus on the worst possibilities. Let's explore this together.",
        "Your concerns are valid. Let's take a moment to breathe and think about this situation."
    >>) @@
    (joy :> <<
        "It's wonderful to hear you're feeling positive! Your happiness is important.",
        "I'm so glad things are going well for you. Would you like to share more about what's bringing you joy?",
        "That sounds really positive! It's great that you're experiencing these good feelings.",
        "I'm happy to hear that! Celebrating these positive moments is important.",
        "Your positive energy is contagious. Thank you for sharing this happy moment."
    >>) @@
    (neutral :> <<
        "I'm here to support you, whatever you might be feeling right now.",
        "How are you feeling about everything that's going on?",
        "I'm listening and here to help in any way I can.",
        "Would you like to explore any particular thoughts or feelings today?",
        "Sometimes taking a moment to check in with ourselves can be helpful. How are you really doing?"
    >>)

\* labels the handlers name besides the five categories
sad     == <<115, 97, 100>>   \* "sad"
angry   == <<97, 110, 103, 114, 121>>   \* "angry"
anxious == <<97, 110, 120, 105, 111, 117, 115>>   \* "anxious"
afraid  == <<97, 102, 114, 97, 105, 100>>   \* "afraid"
happy   == <<104, 97, 112, 112, 121>>   \* "happy"
excited == <<101, 120, 99, 105, 116, 101, 100>>   \* "excited"

\* the values of the server_connection_status slot
connected    == <<99, 111, 110, 110, 101, 99, 116, 101, 100>>   \* "connected"
disconnected == <<100, 105, 115, 99, 111, 110, 110, 101, 99, 116, 101, 100>>   \* "disconnected"

\* rasa_sdk.events.SlotSet(key, value)
SlotSet(key, value) == [event |-> "slot", name |-> key, value |-> value]

\* Outcomes of one outbound HTTP call: the call raises (timeout, connection
\* error), or a response arrives with a status code and a body.
HttpRaises == [kind |-> "raises"]
HttpResponse(status, body) == [kind |-> "response", status_code |-> status, body |-> body]

\* Bodies, as response.json() sees them: not JSON (json() raises), the JSON
\* value null, a JSON array (a list without the element "choices"), or a JSON
\* object with the given fields.
InvalidJson == [json |-> "invalid"]
JsonNull == [json |-> "null"]
JsonArray == [json |-> "array"]
JsonObject(fields) == [json |-> "object", fields |-> fields]

\* A handler invocation in progress: the values drawn from `random` in order,
\* the outbound requests issued, the outcome of the outbound call, the table
\* lookups made (table[key]), the messages given to the dispatcher, the
\* exception that left run() ("none" if it returned) and the events returned.
Invoked ==
    [draws |-> <<>>, requests |-> <<>>, http |-> [kind |-> "unused"], lookups |-> {},
     messages |-> <<>>, raised |-> "none", events |-> <<>>]

random_random(run, r)  ==
    [run EXCEPT !.draws = Append(@, [fn |-> "random", num |-> r.num, den |-> r.den])]
random_choice(run, c)  == [run EXCEPT !.draws = Append(@, [fn |-> "choice", index |-> c])]
looks_up(run, t, key)  == [run EXCEPT !.lookups = @ \cup {[table |-> t, key |-> key]}]
utter_message(run, m)  == [run EXCEPT !.messages = Append(@, m)]
requests_call(run, url, outcome) ==
    [run EXCEPT !.requests = Append(@, url), !.http = outcome]
returns(run, events)   == [run EXCEPT !.events = events]
raises(run, exception) == [run EXCEPT !.raised = exception]

\* random.choice(seq) picks among the first MaxChoice entries of seq
MaxChoice == 2

choices(seq) == {i \in DOMAIN seq : i <= MaxChoice}

\* the values random.random() is drawn from: below both thresholds, at 0.5, at 0.7
RandomValues == {Rat(499, 1000), Rat(1, 2), Rat(7, 10)}

\* data["choices"][0]["message"]["content"] evaluates without raising
content_present(fields) ==
    /\ Len(fields.choices) > 0
    /\ "message" \in DOMAIN fields.choices[1]
    /\ "content" \in DOMAIN fields.choices[1].message

\* ActionProcessMessage._call_fallback_api, lines 258-262: the except clause
pm_except(run, emotion) ==
    LET r == looks_up(run, "EMPATHETIC_RESPONSES", emotion) IN
    IF emotion \notin DOMAIN EMPATHETIC_RESPONSES
    THEN {raises(r, "KeyError")}
    ELSE {returns(utter_message(random_choice(r, c), <<EMPATHETIC_RESPONSES[emotion][c]>>),
                  <<SlotSet("detected_emotion", emotion)>>)
            : c \in choices(EMPATHETIC_RESPONSES[emotion])}

\* lines 252-256: the else branch; its KeyError and the AttributeError of
\* data.get on a body that is no object are caught by the except clause
pm_else(run, emotion, data) ==
    LET r == looks_up(run, "EMPATHETIC_RESPONSES", emotion) IN
    IF emotion \notin DOMAIN EMPATHETIC_RESPONSES
    THEN pm_except(r, emotion)
    ELSE UNION {
            LET u == utter_message(random_choice(r, c), <<EMPATHETIC_RESPONSES[emotion][c]>>)
            IN  IF data.json = "object"
                THEN {returns(u, <<SlotSet("detected_emotion", emotion)>>)}
                ELSE pm_except(u, emotion)
            : c \in choices(EMPATHETIC_RESPONSES[emotion])}

\* lines 221-264: the remote call and what follows it
pm_remote(run, emotion, outcome) ==
    LET r == requests_call(run, "POST https://api.openai.com/v1/chat/completions", outcome) IN
    IF outcome.kind = "raises" THEN pm_except(r, emotion)
    ELSE IF outcome.body.json = "invalid" THEN pm_except(r, emotion)
    ELSE LET data == outcome.body IN
         IF outcome.status_code = 200
         THEN IF data.json = "null" THEN pm_except(r, emotion)
              ELSE IF data.json = "object" /\ "choices" \in DOMAIN data.fields
              THEN IF content_present(data.fields)
                   THEN {returns(utter_message(r, <<data.fields.choices[1].message.content>>),
                                 <<SlotSet("detected_emotion", emotion)>>)}
                   ELSE pm_except(r, emotion)
              ELSE pm_else(r, emotion, data)
         ELSE pm_else(r, emotion, data)

\* the predefined response with a technique offered for every emotion
pm_predefined_any_emotion(run, emotion) ==
    UNION {
        LET r == random_choice(looks_up(run, "EMPATHETIC_RESPONSES", emotion), c)
            response == EMPATHETIC_RESPONSES[emotion][c]
            done(x, msg) == returns(utter_message(x, msg),
                                    <<SlotSet("detected_emotion", emotion)>>)
        IN  UNION {
                LET r2 == random_random(r, p) IN
                IF RatLess(p, Rat(1, 2))
                THEN {done(random_choice(looks_up(r2, "THERAPY_TECHNIQUES", emotion), t),
                           <<response, "\n\nHere's a technique that might help: ",
                             THERAPY_TECHNIQUES[emotion][t]>>)
                        : t \in choices(THERAPY_TECHNIQUES[emotion])}
                ELSE {done(r2, <<response>>)}
                : p \in RandomValues}
        : c \in choices(EMPATHETIC_RESPONSES[emotion])}

\* lines 210-218: the predefined response, with or without a technique
pm_predefined(run, emotion) ==
    UNION {
        LET r == random_choice(looks_up(run, "EMPATHETIC_RESPONSES", emotion), c)
            response == EMPATHETIC_RESPONSES[emotion][c]
            done(x, msg) == returns(utter_message(x, msg),
                                    <<SlotSet("detected_emotion", emotion)>>)
        IN  IF emotion \in {sadness, anger, fear}
            THEN UNION {
                    LET r2 == random_random(r, p) IN
                    IF RatLess(p, Rat(1, 2))
                    THEN {done(random_choice(looks_up(r2, "THERAPY_TECHNIQUES", emotion), t),
                               <<response, "\n\nHere's a technique that might help: ",
                                 THERAPY_TECHNIQUES[emotion][t]>>)
                            : t \in choices(THERAPY_TECHNIQUES[emotion])}
                    ELSE {done(r2, <<response>>)}
                    : p \in RandomValues}
            ELSE {done(r, <<response>>)}
        : c \in choices(EMPATHETIC_RESPONSES[emotion])}

\* ActionProcessMessage._call_fallback_api: every way one call can go
_call_fallback_api(run, emotion, outcomes) ==
    UNION {
        LET r == random_random(run, p) IN
        IF RatLess(p, Rat(7, 10)) /\ emotion \in DOMAIN EMPATHETIC_RESPONSES
        THEN pm_predefined(r, emotion)
        ELSE UNION {pm_remote(r, emotion, o) : o \in outcomes}
        : p \in RandomValues}

\* ActionProcessMessage.run, lines 177-202, after the emotion is detected
ActionProcessMessage_run(intent, emotion, outcomes) ==
    LET confidence == IF "confidence" \in DOMAIN intent THEN intent.confidence ELSE Rat(0, 1)
    IN  IF RatLess(confidence, Rat(3, 10))
        THEN _call_fallback_api(Invoked, emotion, outcomes)
        ELSE {returns(Invoked, <<SlotSet("detected_emotion", emotion)>>)}

\* lines 324-328 answering from the response table, as _call_fallback_api does
fa_except_empathetic(run, emotion) ==
    LET key == IF emotion \in DOMAIN EMPATHETIC_RESPONSES THEN emotion ELSE neutral IN
    {returns(utter_message(random_choice(looks_up(run, "EMPATHETIC_RESPONSES", key), c),
                           <<EMPATHETIC_RESPONSES[key][c]>>),
             <<SlotSet("detected_emotion", emotion)>>)
        : c \in choices(EMPATHETIC_RESPONSES[key])}

\* ActionFallbackAPI.run, lines 324-328: the except clause
fa_except(run, emotion) ==
    {returns(utter_message(run,
        <<"I'm having trouble processing your request right now. Let's try something else.">>),
        <<SlotSet("detected_emotion", emotion)>>)}

\* lines 319-322: the else branch; data.get raises on a body that is no object
fa_else(run, emotion, data) ==
    LET u == utter_message(run,
                <<"I'm not sure how to respond to that. Could you rephrase or ask something else?">>)
    IN  IF data.json = "object"
        THEN {returns(u, <<SlotSet("detected_emotion", emotion)>>)}
        ELSE fa_except(u, emotion)

\* lines 288-328: the remote call and what follows it
fa_remote(run, emotion, outcome) ==
    LET r == requests_call(run, "POST https://api.openai.com/v1/chat/completions", outcome) IN
    IF outcome.kind = "raises" THEN fa_except(r, emotion)
    ELSE IF outcome.body.json = "invalid" THEN fa_except(r, emotion)
    ELSE LET data == outcome.body IN
         IF outcome.status_code = 200
         THEN IF data.json = "null" THEN fa_except(r, emotion)
              ELSE IF data.json = "object" /\ "choices" \in DOMAIN data.fields
              THEN IF content_present(data.fields)
                   THEN {returns(utter_message(r, <<data.fields.choices[1].message.content>>),
                                 <<SlotSet("detected_emotion", emotion)>>)}
                   ELSE fa_except(r, emotion)
              ELSE fa_else(r, emotion, data)
         ELSE fa_else(r, emotion, data)

\* ActionFallbackAPI.run, lines 281-328, after the emotion is detected
ActionFallbackAPI_run(emotion, outcomes) ==
    UNION {
        LET r == random_random(Invoked, p) IN
        IF RatLess(p, Rat(7, 10)) /\ emotion \in DOMAIN EMPATHETIC_RESPONSES
        THEN {returns(utter_message(
                        random_choice(looks_up(r, "EMPATHETIC_RESPONSES", emotion), c),
                        <<EMPATHETIC_RESPONSES[emotion][c]>>),
                      <<SlotSet("detected_emotion", emotion)>>)
                : c \in choices(EMPATHETIC_RESPONSES[emotion])}
        ELSE UNION {fa_remote(r, emotion, o) : o \in outcomes}
        : p \in RandomValues}

\* ActionCheckServerStatus.run taking any response for a live server
ActionCheckServerStatus_run_any_status(outcome) ==
    LET r == requests_call(Invoked, "GET http://localhost:5005/status", outcome)
        connection_status ==
            IF outcome.kind = "raises" THEN disconnected ELSE connected
    IN  returns(r, <<SlotSet("server_connection_status", connection_status)>>)

\* ActionCheckServerStatus.run
ActionCheckServerStatus_run(outcome) ==
    LET r == requests_call(Invoked, "GET http://localhost:5005/status", outcome)
        connection_status ==
            IF outcome.kind = "raises" THEN disconnected
            ELSE IF outcome.status_code = 200 THEN connected
            ELSE disconnected
    IN  returns(r, <<SlotSet("server_connection_status", connection_status)>>)

\* ActionGetMotivationalQuote.run, lines 120-126
fallback_quotes == <<
    [quote |-> "The only way out is through.", author |-> "Robert Frost"],
    [quote |-> "You are stronger than you think.", author |-> "Unknown"],
    [quote |-> "Every moment is a fresh beginning.", author |-> "T.S. Eliot"],
    [quote |-> "Believe you can and you're halfway there.", author |-> "Theodore Roosevelt"],
    [quote |-> "This too shall pass.", author |-> "Persian Proverb"] >>

\* lines 149-158: the framing prefix
quote_prefix(emotion) ==
    IF emotion \in {sadness, sad}
    THEN "I understand you might be feeling down. Here's something that might help: "
    ELSE IF emotion \in {anger, angry}
    THEN "I can sense you're frustrated. Take a deep breath and consider this: "
    ELSE IF emotion \in {fear, afraid}
    THEN "It's okay to feel anxious sometimes. Remember: "
    ELSE IF emotion \in {joy, happy}
    THEN "I'm glad you're feeling positive! Here's more inspiration: "
    ELSE "Here's a thought for you: "

\* data.get(key) on a JSON object, rendered by the f-string of line 160
dict_get_str(fields, key) == IF key \in DOMAIN fields THEN fields[key] ELSE "None"

\* lines 160-163: the message and the slot event
quote_reply(run, emotion, quote, author) ==
    returns(utter_message(run, <<quote_prefix(emotion), "\n\"", quote, "\"\n- ", author>>),
            <<SlotSet("detected_emotion", emotion)>>)

\* a fallback quote signed by the author of the next entry
quote_fallback_mispaired(run, emotion) ==
    {quote_reply(random_choice(run, c), emotion,
                 fallback_quotes[c].quote, fallback_quotes[(c % Len(fallback_quotes)) + 1].author)
        : c \in choices(fallback_quotes)}

\* lines 137-139 and 143-145: one entry of the fallback list
quote_fallback(run, emotion) ==
    {quote_reply(random_choice(run, c), emotion,
                 fallback_quotes[c].quote, fallback_quotes[c].author)
        : c \in choices(fallback_quotes)}

\* ActionGetMotivationalQuote.run, lines 128-163, after the emotion is detected
ActionGetMotivationalQuote_run(emotion, outcome) ==
    LET r == requests_call(Invoked, "GET http://localhost:8000/quote", outcome) IN
    IF outcome.kind = "raises" THEN quote_fallback(r, emotion)
    ELSE IF outcome.status_code = 200
    THEN IF outcome.body.json = "object"
         THEN {quote_reply(r, emotion, dict_get_str(outcome.body.fields, "quote"),
                           dict_get_str(outcome.body.fields, "author"))}
         ELSE quote_fallback(r, emotion)
    ELSE quote_fallback(r, emotion)

\* the slot value looked up as it is, with no mapping
emotion_mapping_unmapped(e) == e

\* ActionSuggestCopingStrategy.run, lines 377-387: emotion_mapping.get(e, e)
emotion_mapping(e) ==
    IF e = sad THEN sadness
    ELSE IF e = angry THEN anger
    ELSE IF e \in {anxious, afraid} THEN fear
    ELSE IF e \in {happy, excited} THEN joy
    ELSE e

\* lines 397-406: the introduction
coping_intro(mapped_emotion) ==
    IF mapped_emotion = sadness THEN "When you're feeling down, it can help to:"
    ELSE IF mapped_emotion = anger
    THEN "To manage feelings of frustration or anger, you might try:"
    ELSE IF mapped_emotion = fear
    THEN "When anxiety or fear arises, this technique can be helpful:"
    ELSE IF mapped_emotion = joy THEN "To build on these positive feelings, consider:"
    ELSE "Here's a helpful technique you might want to try:"

\* ActionSuggestCopingStrategy.run; slot_value is tracker.get_slot("detected_emotion")
ActionSuggestCopingStrategy_run(slot_value) ==
    LET current_emotion == IF py_not(slot_value) THEN neutral ELSE slot_value
        mapped          == emotion_mapping(current_emotion)
        mapped_emotion  == IF mapped \notin DOMAIN THERAPY_TECHNIQUES THEN neutral ELSE mapped
        r               == looks_up(Invoked, "THERAPY_TECHNIQUES", mapped_emotion)
    IN  {returns(utter_message(random_choice(r, c),
                    <<coping_intro(mapped_emotion), "\n\n", THERAPY_TECHNIQUES[mapped_emotion][c]>>),
                 <<>>)
            : c \in choices(THERAPY_TECHNIQUES[mapped_emotion])}

-----------------------------------------------------------------------------
(* Inputs *)

\* the longest ranked label list the tagger returns
MaxLabels == 2
\* the longest generated message, in words
MaxWords == 3

\* labels the tagger may put on a sentence (any case; not only the five categories)
FlairLabels == {
    [value |-> <<83, 65, 68, 78, 69, 83, 83>>,     score |-> Rat(97, 100)],   \* "SADNESS"
    [value |-> <<68, 105, 115, 103, 117, 115, 116>>,     score |-> Rat(1, 2)] }   \* "Disgust"

\* a label with upper-case letters outside ASCII ("COLÈRE", È is U+00C8)
AccentedLabel ==
    [value |-> <<67, 79, 76, 200, 82, 69>>, score |-> Rat(3, 5)]

\* "\u03a3\u039f\u03a6\u039f\u03a3": the first sigma lower-cases to U+03C3, the last
\* to the final sigma U+03C2
SigmaLabel ==
    [value |-> <<931, 927, 934, 927, 931>>, score |-> Rat(1, 2)]

ModelOutputs ==
    {Raises, Predicts(<<AccentedLabel>>), Predicts(<<SigmaLabel>>)} \cup
    {Predicts(ls) : ls \in UNION {[1..n -> FlairLabels] : n \in 0..MaxLabels}}

\* the texts of the module's own example run (lines 169-175)
ExampleTexts == {
    \* "I'm feeling really happy today!"
    <<73, 39, 109, 32, 102, 101, 101, 108, 105, 110, 103, 32, 114, 101, 97, 108, 108, 121, 32, 104,
      97, 112, 112, 121, 32, 116, 111, 100, 97, 121, 33>>,
    \* "I'm so sad and depressed right now."
    <<73, 39, 109, 32, 115, 111, 32, 115, 97, 100, 32, 97, 110, 100, 32, 100, 101, 112, 114, 101,
      115, 115, 101, 100, 32, 114, 105, 103, 104, 116, 32, 110, 111, 119, 46>>,
    \* "This makes me so angry and frustrated!"
    <<84, 104, 105, 115, 32, 109, 97, 107, 101, 115, 32, 109, 101, 32, 115, 111, 32, 97, 110, 103,
      114, 121, 32, 97, 110, 100, 32, 102, 114, 117, 115, 116, 114, 97, 116, 101, 100, 33>>,
    \* "I'm really anxious and worried about my exam."
    <<73, 39, 109, 32, 114, 101, 97, 108, 108, 121, 32, 97, 110, 120, 105, 111, 117, 115, 32, 97,
      110, 100, 32, 119, 111, 114, 114, 105, 101, 100, 32, 97, 98, 111, 117, 116, 32, 109, 121, 32,
      101, 120, 97, 109, 46>>,
    \* "I'm doing okay, just a normal day."
    <<73, 39, 109, 32, 100, 111, 105, 110, 103, 32, 111, 107, 97, 121, 44, 32, 106, 117, 115, 116,
      32, 97, 32, 110, 111, 114, 109, 97, 108, 32, 100, 97, 121, 46>> }

\* "I am so scared and terrified of my exam tomorrow"
ScenarioText ==
    <<73, 32, 97, 109, 32, 115, 111, 32, 115, 99, 97, 114, 101, 100, 32, 97, 110, 100, 32, 116,
      101, 114, 114, 105, 102, 105, 101, 100, 32, 111, 102, 32, 109, 121, 32, 101, 120, 97, 109, 32,
      116, 111, 109, 111, 114, 114, 111, 119>>

\* None, "", " ", " \t\n", "\v", then U+00A0 U+0085 U+001C and
\* U+1680 U+2003 U+3000
BlankTexts ==
    {None, EmptyStr, <<32>>, <<32, 9, 10>>, <<11>>, <<160, 133, 28>>,
     <<5760, 8195, 12288>>}

\* "O\u212aAY fine": the Kelvin sign lower-cases to "k"
KelvinText == <<79, 8490, 65, 89, 32, 102, 105, 110, 101>>

\* "F\u0130NE": U+0130 lower-cases to "i" and U+0307, so "fine" does not occur
DottedText == <<70, 304, 78, 69>>

\* a text with upper-case letters outside ASCII ("TRÈS Sad", È is U+00C8)
AccentedText == <<84, 82, 200, 83, 32, 83, 97, 100>>

Vocabulary == {
    <<115, 97, 100>>,   \* "sad"
    <<117, 110, 104, 97, 112, 112, 121>>,   \* "unhappy"
    <<85, 112, 115, 101, 116>>,   \* "Upset"
    <<102, 105, 110, 101>>,   \* "fine"
    <<101, 120, 97, 109>> }   \* "exam"

RECURSIVE join_words(_)
join_words(ws) ==
    IF Len(ws) = 1 THEN ws[1] ELSE ws[1] \o <<32>> \o join_words(Tail(ws))   \* " "

GeneratedTexts ==
    {join_words(ws) : ws \in UNION {[1..n -> Vocabulary] : n \in 1..MaxWords}}

Texts == BlankTexts \cup ExampleTexts \cup {ScenarioText, AccentedText, KelvinText, DottedText} \cup GeneratedTexts

\* the texts of the user turns the handlers see
TurnTexts == {
    EmptyStr,
    <<72, 97, 112, 112, 121>>,   \* "Happy"
    <<115, 97, 100>>,   \* "sad"
    <<97, 110, 103, 114, 121>>,   \* "angry"
    <<115, 99, 97, 114, 101, 100>> }   \* "scared"

\* the intents of the NLU: no confidence given, or one around the 0.3 threshold
Intents == {
    [name |-> "nlu_fallback"],
    [name |-> "mood_unhappy", confidence |-> Rat(29, 100)],
    [name |-> "mood_unhappy", confidence |-> Rat(3, 10)] }

\* labels the tagger puts on the text of a turn: those above and a synonym
TurnLabels ==
    FlairLabels \cup {[value |-> <<65, 110, 120, 105, 111, 117, 115>>, score |-> Rat(4, 5)]}   \* "Anxious"

\* what the tagger does with the text of a turn, when one is loaded
TurnOutputs ==
    {Raises} \cup {Predicts(<<l>>) : l \in TurnLabels}

\* outcomes of the POST to the text-generation API
ChatOutcomes == {
    HttpRaises,
    HttpResponse(200, InvalidJson),
    HttpResponse(200, JsonNull),
    HttpResponse(200, JsonArray),
    HttpResponse(200, JsonObject([choices |-> <<[message |-> [content |-> "You are not alone."]]>>])),
    HttpResponse(200, JsonObject([choices |-> <<>>])),
    HttpResponse(200, JsonObject([id |-> "chatcmpl"])),
    HttpResponse(401, JsonObject([error |-> "Incorrect API key provided"])),
    HttpResponse(502, JsonArray),
    HttpResponse(503, JsonNull) }

\* outcomes of the GET to the quote service
QuoteOutcomes == {
    HttpRaises,
    HttpResponse(200, JsonObject([quote |-> "Keep going.", author |-> "Anonymous"])),
    HttpResponse(200, JsonObject([detail |-> "no quote"])),
    HttpResponse(200, InvalidJson),
    HttpResponse(200, JsonArray),
    HttpResponse(404, JsonObject([detail |-> "Not Found"])) }

\* outcomes of the GET to the status endpoint
StatusOutcomes == {
    HttpRaises,
    HttpResponse(200, JsonObject([version |-> "3.6"])),
    HttpResponse(200, InvalidJson),
    HttpResponse(404, InvalidJson),
    HttpResponse(503, InvalidJson) }

NoDetect == [op |-> "none"]
NoCall == [action |-> "none"]

\* run_server.py as imported: `processes = []`, main not yet called
NotLaunched ==
    /\ main_pc = "main"
    /\ process = None
    /\ processes = <<>>
    /\ children = {}
    /\ terminated = {}
    /\ frames = <<>>

-----------------------------------------------------------------------------
(* The classifier on its own: inputs drawn in Init, the two entry points applied *)

InitDetect ==
    /\ emotion_model \in {None, Tagger}
    /\ latest_message \in {[text |-> x, intent |-> [name |-> "greet"]] : x \in Texts}
    /\ tagger_output \in IF emotion_model = None THEN {Raises} ELSE ModelOutputs
    /\ slots = [detected_emotion |-> None, server_connection_status |-> None]
    /\ det = NoDetect
    /\ call = NoCall
    /\ NotLaunched

\* detector.detect_emotion(text)
CallDetectEmotion ==
    /\ LET r == detect_emotion(emotion_model, latest_message.text, tagger_output) IN
       det' = [op |-> "detect_emotion", text |-> latest_message.text,
               raised |-> r.raised, ran |-> r.ran, ret |-> r.ret]
    /\ UNCHANGED <<emotion_model, latest_message, tagger_output, slots, call>>
    /\ UNCHANGED launcher

\* detector._detect_with_keywords(text), on a string
CallDetectWithKeywords ==
    /\ latest_message.text # None
    /\ LET k == _detect_with_keywords(latest_message.text) IN
       det' = [op |-> "_detect_with_keywords", text |-> latest_message.text,
               raised |-> FALSE, ran |-> {"keywords"},
               ret |-> [emotion |-> k.emotion, confidence |-> k.confidence,
                        method |-> "keywords"]]
    /\ UNCHANGED <<emotion_model, latest_message, tagger_output, slots, call>>
    /\ UNCHANGED launcher

NextDetect == CallDetectEmotion \/ CallDetectWithKeywords

SpecDetect == InitDetect /\ [][NextDetect]_vars

-----------------------------------------------------------------------------
(* The handlers under the dialogue framework *)

Init ==
    /\ emotion_model \in {None, Tagger}
    /\ latest_message = [text |-> None, intent |-> [name |-> ""]]
    /\ tagger_output = Raises
    /\ slots = [detected_emotion |-> None, server_connection_status |-> None]
    /\ det = NoDetect
    /\ call = NoCall
    /\ NotLaunched

\* The framework receives a user message and runs its NLU; nothing has been
\* dispatched for this turn yet.
UserTurn ==
    /\ \E text \in TurnTexts, intent \in Intents :
          latest_message' = [text |-> text, intent |-> intent]
    /\ tagger_output' \in IF emotion_model = None THEN {Raises} ELSE TurnOutputs
    /\ det' = NoDetect
    /\ call' = NoCall
    /\ UNCHANGED <<emotion_model, slots>>
    /\ UNCHANGED launcher

\* the framework applies the returned events to the tracker
RECURSIVE apply_events(_, _)
apply_events(s, events) ==
    IF events = <<>> THEN s
    ELSE apply_events([s EXCEPT ![Head(events).name] = Head(events).value], Tail(events))

\* emotion_detector.detect_emotion(latest_message) as the handlers call it
Detected == detect_emotion(emotion_model, latest_message.text, tagger_output)

\* a handler invocation ends: its record is kept, its events reach the tracker
Finish(action, emotion, run) ==
    /\ call' = [action |-> action, emotion |-> emotion, draws |-> run.draws,
                requests |-> run.requests, http |-> run.http, lookups |-> run.lookups,
                messages |-> run.messages, raised |-> run.raised, events |-> run.events]
    /\ slots' = IF run.raised = "none" THEN apply_events(slots, run.events) ELSE slots

DetectorCalled(d) ==
    det' = [op |-> "detect_emotion", text |-> latest_message.text,
            raised |-> d.raised, ran |-> d.ran, ret |-> d.ret]

GetMotivationalQuote ==
    /\ LET d == Detected IN
       /\ DetectorCalled(d)
       /\ \E outcome \in QuoteOutcomes :
             \E run \in ActionGetMotivationalQuote_run(d.ret.emotion, outcome) :
                Finish("action_get_motivational_quote", d.ret.emotion, run)
    /\ UNCHANGED <<emotion_model, latest_message, tagger_output>>
    /\ UNCHANGED launcher

ProcessMessage ==
    /\ LET d == Detected IN
       /\ DetectorCalled(d)
       /\ \E run \in ActionProcessMessage_run(latest_message.intent, d.ret.emotion, ChatOutcomes) :
             Finish("action_process_message", d.ret.emotion, run)
    /\ UNCHANGED <<emotion_model, latest_message, tagger_output>>
    /\ UNCHANGED launcher

FallbackAPI ==
    /\ LET d == Detected IN
       /\ DetectorCalled(d)
       /\ \E run \in ActionFallbackAPI_run(d.ret.emotion, ChatOutcomes) :
             Finish("action_fallback_api", d.ret.emotion, run)
    /\ UNCHANGED <<emotion_model, latest_message, tagger_output>>
    /\ UNCHANGED launcher

CheckServerStatus ==
    /\ \E outcome \in StatusOutcomes :
          Finish("action_check_server_status", None, ActionCheckServerStatus_run(outcome))
    /\ UNCHANGED <<emotion_model, latest_message, tagger_output, det>>
    /\ UNCHANGED launcher

SuggestCopingStrategy ==
    /\ \E run \in ActionSuggestCopingStrategy_run(slots.detected_emotion) :
          Finish("action_suggest_coping_strategy", slots.detected_emotion, run)
    /\ UNCHANGED <<emotion_model, latest_message, tagger_output, det>>
    /\ UNCHANGED launcher

Next ==
    \/ UserTurn
    \/ GetMotivationalQuote
    \/ ProcessMessage
    \/ FallbackAPI
    \/ CheckServerStatus
    \/ SuggestCopingStrategy

Spec == Init /\ [][Next]_vars

-----------------------------------------------------------------------------
(* The process launcher, run_server.py *)

\* the most signal_handler calls in progress at once
MaxInterrupts == 2

\* main, lines 114-130: the statements of the try block, in order
MainSequence == <<"start_actions_server", "sleep_3", "start_rasa_server", "sleep_5",
                  "start_frontend_server", "sleep_2", "open_browser", "while_True">>

\* the statement after the one main is at
after(pc) == MainSequence[(CHOOSE i \in DOMAIN MainSequence : MainSequence[i] = pc) + 1]

\* the Popen handle of the child each start_* function spawns (the server on
\* port 5055, 5005, 8000); like None, a tuple
Server == [start_actions_server  |-> <<"Popen", "actions">>,
           start_rasa_server     |-> <<"Popen", "rasa">>,
           start_frontend_server |-> <<"Popen", "frontend">>]

\* signal.signal(signal.SIGINT, signal_handler) has run and the launcher is alive
Registered ==
    main_pc \notin {"main", "signal.signal", "return", "exit", "KeyboardInterrupt"}

\* main runs only while no signal_handler call is in progress
MainRuns == frames = <<>>

\* line 106: check_dependencies() finds rasa and flair, or main returns
CheckDependencies ==
    /\ main_pc = "main"
    /\ main_pc' \in {"signal.signal", "return"}
    /\ UNCHANGED <<process, processes, children, terminated, frames>>
    /\ UNCHANGED chatbot

\* line 110
RegisterHandler ==
    /\ main_pc = "signal.signal"
    /\ main_pc' = "start_actions_server"
    /\ UNCHANGED <<process, processes, children, terminated, frames>>
    /\ UNCHANGED chatbot

\* lines 59, 73, 82: process = subprocess.Popen(cmd, cwd=BASE_DIR) spawns the child
Popen ==
    /\ MainRuns
    /\ main_pc \in DOMAIN Server
    /\ process = None
    /\ process' = Server[main_pc]
    /\ children' = children \cup {Server[main_pc]}
    /\ UNCHANGED <<main_pc, processes, terminated, frames>>
    /\ UNCHANGED chatbot

\* subprocess.Popen raises (OSError): no child, control reaches line 132
PopenRaises ==
    /\ MainRuns
    /\ main_pc \in DOMAIN Server
    /\ process = None
    /\ main_pc' = "except"
    /\ UNCHANGED <<process, processes, children, terminated, frames>>
    /\ UNCHANGED chatbot

\* lines 60-62, 74-76, 83-85: processes.append(process); the function returns
ProcessesAppend ==
    /\ MainRuns
    /\ main_pc \in DOMAIN Server
    /\ process # None
    /\ processes' = Append(processes, process)
    /\ process' = None
    /\ main_pc' = after(main_pc)
    /\ UNCHANGED <<children, terminated, frames>>
    /\ UNCHANGED chatbot

\* lines 115, 118, 121: time.sleep returns
Sleep ==
    /\ MainRuns
    /\ main_pc \in {"sleep_3", "sleep_5", "sleep_2"}
    /\ main_pc' = after(main_pc)
    /\ UNCHANGED <<process, processes, children, terminated, frames>>
    /\ UNCHANGED chatbot

\* line 124: webbrowser.open returns, or raises
OpenBrowser ==
    /\ MainRuns
    /\ main_pc = "open_browser"
    /\ main_pc' \in {after(main_pc), "except"}
    /\ UNCHANGED <<process, processes, children, terminated, frames>>
    /\ UNCHANGED chatbot

\* lines 129-130: while True: time.sleep(1)
KeepAlive ==
    /\ MainRuns
    /\ main_pc \in {"while_True", "sleep_1"}
    /\ main_pc' = IF main_pc = "while_True" THEN "sleep_1" ELSE "while_True"
    /\ UNCHANGED <<process, processes, children, terminated, frames>>
    /\ UNCHANGED chatbot

\* lines 132-134: except Exception calls signal_handler(None, None)
Except ==
    /\ MainRuns
    /\ main_pc = "except"
    /\ main_pc' = "signal_handler"
    /\ frames' = <<1>>
    /\ UNCHANGED <<process, processes, children, terminated>>
    /\ UNCHANGED chatbot

\* SIGINT arrives once the handler is registered: Python calls signal_handler
\* between two bytecodes of whatever the main thread is running
Interrupt ==
    /\ Registered
    /\ Len(frames) < MaxInterrupts
    /\ frames' = Append(frames, 1)
    /\ UNCHANGED <<main_pc, process, processes, children, terminated>>
    /\ UNCHANGED chatbot

\* SIGINT arrives before line 110 has run: the default handler raises
\* KeyboardInterrupt, which main does not catch
InterruptDefault ==
    /\ main_pc \in {"main", "signal.signal"}
    /\ main_pc' = "KeyboardInterrupt"
    /\ UNCHANGED <<process, processes, children, terminated, frames>>
    /\ UNCHANGED chatbot

\* signal_handler, lines 96-97: one round of `for process in processes`
Terminate ==
    /\ frames # <<>>
    /\ LET i == frames[Len(frames)] IN
       /\ i <= Len(processes)
       /\ terminated' = terminated \cup {processes[i]}
       /\ frames' = [frames EXCEPT ![Len(frames)] = i + 1]
    /\ UNCHANGED <<main_pc, process, processes, children>>
    /\ UNCHANGED chatbot

\* signal_handler, lines 98-99: the loop is over; sys.exit(0) raises
\* SystemExit, which no frame catches
SysExit ==
    /\ frames # <<>>
    /\ frames[Len(frames)] > Len(processes)
    /\ main_pc' = "exit"
    /\ frames' = <<>>
    /\ UNCHANGED <<process, processes, children, terminated>>
    /\ UNCHANGED chatbot

InitLauncher ==
    /\ emotion_model = None
    /\ latest_message = [text |-> None, intent |-> [name |-> ""]]
    /\ tagger_output = Raises
    /\ slots = [detected_emotion |-> None, server_connection_status |-> None]
    /\ det = NoDetect
    /\ call = NoCall
    /\ NotLaunched

NextLauncher ==
    \/ CheckDependencies
    \/ RegisterHandler
    \/ Popen
    \/ PopenRaises
    \/ ProcessesAppend
    \/ Sleep
    \/ OpenBrowser
    \/ KeepAlive
    \/ Except
    \/ Interrupt
    \/ InterruptDefault
    \/ Terminate
    \/ SysExit

SpecLauncher == InitLauncher /\ [][NextLauncher]_vars

\* a signal_handler call in progress is never held up
FairLauncher == SpecLauncher /\ WF_vars(Terminate) /\ WF_vars(SysExit)

-----------------------------------------------------------------------------
(* Properties of the classifier *)

Range(f) == {f[i] : i \in DOMAIN f}
Min(a, b) == IF a < b THEN a ELSE b

\* a text that is None, empty or made of whitespace only
Blank(text) ==
    text = None \/
    \A i \in 1..Len(text) :
        text[i] \in {9, 10, 11, 12, 13, 28, 29, 30, 31, 32, 133, 160, 5760, 8192, 8193,
                     8194, 8195, 8196, 8197, 8198, 8199, 8200, 8201, 8202, 8232,
                     8233, 8239, 8287, 12288}

DefaultResult ==
    [emotion |-> neutral, confidence |-> [num |-> 0, den |-> 1], method |-> "default"]

\* the tagger is loaded and labels the latest text
ModelPredicts ==
    emotion_model # None /\ tagger_output.kind = "labels" /\ Len(tagger_output.labels) > 0

\* what the keyword path alone returns for a text
KeywordResult(text) ==
    LET k == _detect_with_keywords(text) IN
    [emotion |-> k.emotion, confidence |-> k.confidence, method |-> "keywords"]

\* the categories in the order the claims name them
CategoryOrder == <<joy, sadness, anger, fear, neutral>>

\* how many distinct keywords of category k occur in the (lower-cased) text t
Hits(k, t) ==
    Cardinality({kw \in Range(EMOTION_KEYWORDS[k].keywords) : str_contains(kw, t)})

HitVector(text) ==
    LET t == str_lower(text) IN <<Hits(1, t), Hits(2, t), Hits(3, t), Hits(4, t), Hits(5, t)>>

KeywordCall == det.op # "none" /\ ~det.raised /\ det.ret.method = "keywords"

\* "sad unhappy Upset": three sadness keywords and one joy keyword ("happy")
ThreeAndOneText ==
    <<115, 97, 100, 32, 117, 110, 104, 97, 112, 112, 121, 32, 85, 112, 115, 101, 116>>   \* "sad unhappy Upset"

\* C1: a text that is empty, whitespace-only or None gets exactly
\* {neutral, 0.0, "default"} from detect_emotion, model loaded or not, and
\* neither the model path nor the keyword path runs.
C1_BlankTextIsDefault ==
    (det.op = "detect_emotion" /\ Blank(det.text)) =>
        /\ ~det.raised
        /\ det.ret = DefaultResult
        /\ det.ran = {}

\* a whitespace-only text went through detect_emotion with a tagger loaded
\* that would have labelled it
C1_Witness ==
    /\ det.op = "detect_emotion"
    /\ det.text = <<32, 9, 10>>
    /\ ModelPredicts
    /\ det.ret = DefaultResult

\* C2: detect_emotion never raises; without a model, with a model that raises
\* or with one that gives no label, the result is the keyword path's result
\* for the same text (method "keywords"); only a prediction with a label gives
\* method "flair", with the top label in lower case.
C2_FallsBackToKeywords ==
    det.op = "detect_emotion" =>
        /\ ~det.raised
        /\ ~Blank(det.text) =>
              IF ModelPredicts
              THEN LET top == tagger_output.labels[1].value
                       e   == det.ret.emotion
                   IN  /\ det.ret.method = "flair"
                       /\ e = str_lower(top)
                       /\ \A i \in 1..Len(e) : e[i] # 931 /\ ToLowerFull(e[i]) = <<e[i]>>
              ELSE det.ret = KeywordResult(det.text)
        /\ det.ret.method = "flair" => ModelPredicts

\* a text of a vertical tab, which strip() removes, got the default result
C1_VerticalTab ==
    /\ det.op = "detect_emotion"
    /\ det.text = <<11>>
    /\ ModelPredicts
    /\ det.ret = DefaultResult

\* the tagger's label "COLÈRE" came back in lower case, accent included
C2_AccentedLabel ==
    /\ det.op = "detect_emotion"
    /\ det.ret.method = "flair"
    /\ det.ret.emotion = <<99, 111, 108, 232, 114, 101>>

\* a text of U+1680, U+2003 and U+3000, which strip() removes, got the default
\* result
C1_UnicodeSpaces ==
    /\ det.op = "detect_emotion"
    /\ det.text = <<5760, 8195, 12288>>
    /\ ModelPredicts
    /\ det.ret = DefaultResult

\* the tagger's label of capital sigmas came back with a final sigma
C2_FinalSigmaLabel ==
    /\ det.op = "detect_emotion"
    /\ det.ret.method = "flair"
    /\ det.ret.emotion = <<963, 959, 966, 959, 962>>

\* the Kelvin sign was lower-cased to "k": "okay" and "fine" both counted
C3_KelvinText ==
    /\ KeywordCall
    /\ det.text = KelvinText
    /\ HitVector(det.text) = <<0, 0, 0, 0, 2>>
    /\ det.ret.emotion = neutral

\* "fine" was not found in the lower case of "F\u0130NE"
C3_DottedText ==
    /\ KeywordCall
    /\ det.text = DottedText
    /\ HitVector(det.text) = <<0, 0, 0, 0, 0>>
    /\ det.ret.confidence = [num |-> 1, den |-> 2]

\* the tagger was loaded, raised on a text with keywords, and the keyword
\* path answered
C2_Witness ==
    /\ det.op = "detect_emotion"
    /\ emotion_model = Tagger
    /\ tagger_output = Raises
    /\ det.ret.method = "keywords"
    /\ det.ret.emotion = sadness

\* C3: the keyword path returns the category with the most keywords occurring
\* as substrings of the lower-cased text, the first of them in the order joy,
\* sadness, anger, fear, neutral on a tie, and neutral when nothing occurs;
\* one keyword of one category and none of any other gives that category.
C3_KeywordArgmax ==
    KeywordCall =>
        LET n == HitVector(det.text)
            e == det.ret.emotion
        IN  /\ \A k \in 1..5 : EMOTION_KEYWORDS[k].emotion = CategoryOrder[k]
            /\ (\A k \in 1..5 : n[k] = 0) => e = neutral
            /\ (\E k \in 1..5 : n[k] > 0) =>
                  \E w \in 1..5 :
                      /\ e = CategoryOrder[w]
                      /\ \A k \in 1..5 : n[k] <= n[w]
                      /\ \A k \in 1..(w - 1) : n[k] < n[w]
            /\ \A c \in 1..5 :
                  (n[c] = 1 /\ \A k \in 1..5 \ {c} : n[k] = 0) => e = CategoryOrder[c]

\* a tie between sadness and neutral ("sad fine"), settled for sadness
C3_Witness ==
    /\ KeywordCall
    /\ det.text = <<115, 97, 100, 32, 102, 105, 110, 101>>   \* "sad fine"
    /\ HitVector(det.text) = <<0, 1, 0, 0, 1>>
    /\ det.ret.emotion = sadness

\* C4: the keyword path's confidence is min(0.9, 0.5 + (winning/total) * 0.4)
\* when something matched and 0.5 otherwise, in exact arithmetic; it lies in
\* [0.5, 0.9]; counts 3 and 1 give 0.8; the exam sentence gives fear with 0.9.
C4_KeywordConfidence ==
    KeywordCall =>
        LET n     == HitVector(det.text)
            total == n[1] + n[2] + n[3] + n[4] + n[5]
            c     == det.ret.confidence
        IN  /\ total = 0 => c = [num |-> 1, den |-> 2]
            /\ total > 0 =>
                  \E w \in 1..5 :
                      /\ det.ret.emotion = CategoryOrder[w]
                      /\ c.num * 10 * total = c.den * Min(9 * total, 5 * total + 4 * n[w])
            /\ c.den > 0 /\ 2 * c.num >= c.den /\ 10 * c.num <= 9 * c.den
            /\ (\E a, b \in 1..5 : n[a] = 3 /\ n[b] = 1 /\ total = 4) =>
                  c = [num |-> 4, den |-> 5]
            /\ det.text = ScenarioText =>
                  det.ret.emotion = fear /\ c = [num |-> 9, den |-> 10]

\* counts 3 (sadness) and 1 (joy), confidence 4/5
C4_Witness ==
    /\ KeywordCall
    /\ det.text = ThreeAndOneText
    /\ HitVector(det.text) = <<1, 3, 0, 0, 0>>
    /\ det.ret.emotion = sadness
    /\ det.ret.confidence = [num |-> 4, den |-> 5]

\* the exam sentence classified by keywords
ScenarioReached == KeywordCall /\ det.text = ScenarioText

-----------------------------------------------------------------------------
(* Properties of the handlers *)

ResponseTable(name) ==
    IF name = "EMPATHETIC_RESPONSES" THEN EMPATHETIC_RESPONSES ELSE THERAPY_TECHNIQUES

EmotionSlotSet == <<[event |-> "slot", name |-> "detected_emotion", value |-> call.emotion]>>

\* the last handler made its outbound call and the call did not deliver a
\* usable completion
RemoteFailed ==
    /\ call.requests # <<>>
    /\ ~ (/\ call.http.kind = "response"
          /\ call.http.status_code = 200
          /\ call.http.body.json = "object"
          /\ "choices" \in DOMAIN call.http.body.fields
          /\ content_present(call.http.body.fields))

LowConfidence ==
    /\ "confidence" \in DOMAIN latest_message.intent =>
          RatLess(latest_message.intent.confidence, [num |-> 3, den |-> 10])

NotSure == <<"I'm not sure how to respond to that. Could you rephrase or ask something else?">>
Trouble == <<"I'm having trouble processing your request right now. Let's try something else.">>

\* C5: every lookup a handler makes into EMPATHETIC_RESPONSES or
\* THERAPY_TECHNIQUES uses a key of that table, for every label the
\* classifier returns and on every branch.
C5_LookupKeysPresent ==
    call.action # "none" =>
        \A l \in call.lookups : l.key \in DOMAIN ResponseTable(l.table)

\* C6: ActionProcessMessage.run with intent confidence >= 0.3 emits nothing,
\* requests nothing and returns only the detected_emotion event; below 0.3 (a
\* missing confidence is 0.0) it emits exactly one message and returns the
\* detected_emotion event.
C6_ConfidenceGate ==
    call.action = "action_process_message" =>
        /\ call.raised = "none"
        /\ call.events = EmotionSlotSet
        /\ IF LowConfidence
           THEN Len(call.messages) = 1
           ELSE call.messages = <<>> /\ call.requests = <<>>

\* C7: when the remote call of ActionProcessMessage's low-confidence path
\* fails in any way, the one message emitted is an entry of
\* EMPATHETIC_RESPONSES[emotion] and the returned event sets detected_emotion.
C7_RemoteFailureIsEmpathetic ==
    (call.action = "action_process_message" /\ RemoteFailed) =>
        /\ call.raised = "none"
        /\ Len(call.messages) = 1
        /\ call.emotion \in DOMAIN EMPATHETIC_RESPONSES
        /\ \E x \in Range(EMPATHETIC_RESPONSES[call.emotion]) : call.messages[1] = <<x>>
        /\ call.events = EmotionSlotSet

\* C8 as stated: whatever ActionFallbackAPI.run emits and returns,
\* ActionProcessMessage's low-confidence path can emit and return for the same
\* emotion, the same first draw and the same outcome of the remote call.
C8_SamePolicyAsProcessMessage ==
    call.action = "action_fallback_api" =>
        \E run \in _call_fallback_api(Invoked, call.emotion, ChatOutcomes) :
            /\ run.draws[1] = call.draws[1]
            /\ run.http = call.http
            /\ run.messages = call.messages
            /\ run.raised = call.raised
            /\ run.events = call.events

\* the generic sentences ActionFallbackAPI.run answers a failed remote call
\* with, by the kind of failure: "trouble" alone when nothing is emitted
\* before the failure is raised (the call raises, the body is not JSON, the
\* status is 200 and the body is null, or "choices" is there without
\* choices[0].message.content); "not sure" alone for an object body with
\* another status or without "choices"; both, in that order, for an array
\* body and for a null body with another status
GenericAnswer ==
    LET h == call.http IN
    IF h.kind = "raises" THEN <<Trouble>>
    ELSE CASE h.body.json = "invalid" -> <<Trouble>>
           [] h.body.json = "object" ->
                 IF h.status_code = 200 /\ "choices" \in DOMAIN h.body.fields
                 THEN <<Trouble>>
                 ELSE <<NotSure>>
           [] h.body.json = "null" ->
                 IF h.status_code = 200 THEN <<Trouble>> ELSE <<NotSure, Trouble>>
           [] h.body.json = "array" -> <<NotSure, Trouble>>

\* C8 amended: ActionFallbackAPI.run has the gate of the low-confidence path
\* (first draw below 0.7 and the label a key of EMPATHETIC_RESPONSES) and its
\* predefined answer is one entry of EMPATHETIC_RESPONSES[emotion], with no
\* technique; on the remote branch it makes one request and answers with the
\* completion or, on a failure, with the generic sentences that the kind of
\* failure determines; it always returns the detected_emotion event and never
\* raises.
C8_FallbackAPIPolicy ==
    call.action = "action_fallback_api" =>
        /\ call.raised = "none"
        /\ call.events = EmotionSlotSet
        /\ call.draws[1].fn = "random"
        /\ IF /\ RatLess(call.draws[1], [num |-> 7, den |-> 10])
              /\ call.emotion \in DOMAIN EMPATHETIC_RESPONSES
           THEN /\ call.requests = <<>>
                /\ Len(call.messages) = 1
                /\ \E x \in Range(EMPATHETIC_RESPONSES[call.emotion]) :
                      call.messages[1] = <<x>>
           ELSE /\ Len(call.requests) = 1
                /\ IF RemoteFailed
                   THEN call.messages = GenericAnswer
                   ELSE call.messages =
                            <<<<call.http.body.fields.choices[1].message.content>>>>

\* the remote call of ActionFallbackAPI.run timed out for a sad user, who got
\* the generic sentence
C8_Witness ==
    /\ call.action = "action_fallback_api"
    /\ call.emotion = sadness
    /\ call.http = HttpRaises
    /\ call.messages = <<Trouble>>
    /\ slots.detected_emotion = sadness

\* status 200 with a null body: the test for "choices" raised and only the
\* second generic sentence was emitted
C8_NullBody ==
    /\ call.action = "action_fallback_api"
    /\ call.http = HttpResponse(200, JsonNull)
    /\ call.messages = <<Trouble>>

\* an array body, with status 200 or another: both generic sentences
C8_ArrayBody ==
    /\ call.action = "action_fallback_api"
    /\ call.http = HttpResponse(200, JsonArray)
    /\ call.messages = <<NotSure, Trouble>>

\* status 503 with a null body: both generic sentences
C8_NullBodyUnavailable ==
    /\ call.action = "action_fallback_api"
    /\ call.http = HttpResponse(503, JsonNull)
    /\ call.messages = <<NotSure, Trouble>>

\* C9: no handler propagates a failure: run() returns its events for every
\* outcome of its outbound call and every label of the classifier.
C9_NoHandlerRaises ==
    call.action # "none" => call.raised = "none"

\* C10: ActionCheckServerStatus.run makes one probe, emits no message and
\* returns the one event SlotSet(server_connection_status, v), v = "connected"
\* exactly when the probe returned with status 200.
C10_ServerStatus ==
    call.action = "action_check_server_status" =>
        LET ok == call.http.kind = "response" /\ call.http.status_code = 200
            v  == IF ok THEN connected ELSE disconnected
        IN  /\ call.raised = "none"
            /\ Len(call.requests) = 1
            /\ call.messages = <<>>
            /\ call.events =
                  <<[event |-> "slot", name |-> "server_connection_status", value |-> v]>>
            /\ slots.server_connection_status = v

\* a probe answered 503 and the slot says disconnected
C10_Witness ==
    /\ call.action = "action_check_server_status"
    /\ call.http.kind = "response"
    /\ call.http.status_code = 503
    /\ slots.server_connection_status = disconnected

\* a probe answered 200
C10_Connected ==
    /\ call.action = "action_check_server_status"
    /\ call.http.kind = "response"
    /\ call.http.status_code = 200
    /\ slots.server_connection_status = connected

\* the synonyms and the category each stands for
Synonyms == {sad, angry, anxious, afraid, happy, excited}

Canonical(e) ==
    IF e = sad THEN sadness
    ELSE IF e = angry THEN anger
    ELSE IF e \in {anxious, afraid} THEN fear
    ELSE IF e \in {happy, excited} THEN joy
    ELSE e

\* the technique list a slot value selects
CopingKey(v) ==
    LET m == Canonical(IF v \in {None, EmptyStr} THEN neutral ELSE v)
    IN  IF m \in DOMAIN THERAPY_TECHNIQUES THEN m ELSE neutral

IntroFor(m) ==
    CASE m = sadness -> "When you're feeling down, it can help to:"
      [] m = anger   -> "To manage feelings of frustration or anger, you might try:"
      [] m = fear    -> "When anxiety or fear arises, this technique can be helpful:"
      [] m = joy     -> "To build on these positive feelings, consider:"
      [] OTHER       -> "Here's a helpful technique you might want to try:"

\* C11: ActionSuggestCopingStrategy.run, for every value of the
\* detected_emotion slot, emits exactly one message: the introduction of m, a
\* blank line and a member of THERAPY_TECHNIQUES[m], m the normalized slot
\* value if that is a table key and "neutral" otherwise; it returns no event;
\* every synonym maps to a key of both response tables.
C11_CopingStrategy ==
    /\ \A s \in Synonyms :
          emotion_mapping(s) \in DOMAIN THERAPY_TECHNIQUES \cap DOMAIN EMPATHETIC_RESPONSES
    /\ call.action = "action_suggest_coping_strategy" =>
          LET m == CopingKey(call.emotion) IN
          /\ call.raised = "none"
          /\ call.events = <<>>
          /\ call.requests = <<>>
          /\ Len(call.messages) = 1
          /\ \E t \in Range(THERAPY_TECHNIQUES[m]) :
                call.messages[1] = <<IntroFor(m), "\n\n", t>>
          /\ \A l \in call.lookups : l = [table |-> "THERAPY_TECHNIQUES", key |-> m]

\* the slot held the synonym "anxious" and the user got a technique for fear
C11_Witness ==
    /\ call.action = "action_suggest_coping_strategy"
    /\ slots.detected_emotion = anxious
    /\ call.messages[1][1] = "When anxiety or fear arises, this technique can be helpful:"
    /\ call.messages[1][3] \in Range(THERAPY_TECHNIQUES[fear])

\* the slot held a label outside the tables and the user got a neutral technique
C11_Unrecognized ==
    /\ call.action = "action_suggest_coping_strategy"
    /\ slots.detected_emotion = <<100, 105, 115, 103, 117, 115, 116>>   \* "disgust"
    /\ call.messages[1][3] \in Range(THERAPY_TECHNIQUES[neutral])

\* the slot was never set
C11_Unset ==
    /\ call.action = "action_suggest_coping_strategy"
    /\ slots.detected_emotion = None
    /\ call.messages[1][3] \in Range(THERAPY_TECHNIQUES[neutral])

\* the quote and the author of the one message of the quote handler
QuoteOf(msg) == msg[3]
AuthorOf(msg) == msg[5]

IsQuoteMessage(msg) == Len(msg) = 5 /\ msg[2] = "\n\"" /\ msg[4] = "\"\n- "

\* the quote and the author are those of one entry of the fallback list
FallbackPair(msg) ==
    \E i \in DOMAIN fallback_quotes :
        /\ QuoteOf(msg) = fallback_quotes[i].quote
        /\ AuthorOf(msg) = fallback_quotes[i].author

\* a field of the service's JSON object, as the message shows it
ServiceValue(fields, key) == IF key \in DOMAIN fields THEN fields[key] ELSE "None"

\* C12 as stated: ActionGetMotivationalQuote.run emits exactly one message;
\* its quote and author are the service's values when the GET returned 200
\* with a body that parses, and otherwise those of one and the same entry of
\* the fallback list.
C12_ServiceValuesWhenParseable ==
    call.action = "action_get_motivational_quote" =>
        /\ call.raised = "none"
        /\ Len(call.messages) = 1
        /\ IsQuoteMessage(call.messages[1])
        /\ IF /\ call.http.kind = "response"
              /\ call.http.status_code = 200
              /\ call.http.body.json # "invalid"
           THEN /\ call.http.body.json = "object"
                /\ QuoteOf(call.messages[1]) = ServiceValue(call.http.body.fields, "quote")
                /\ AuthorOf(call.messages[1]) = ServiceValue(call.http.body.fields, "author")
           ELSE FallbackPair(call.messages[1])

\* C12 amended: ActionGetMotivationalQuote.run makes one GET and emits
\* exactly one message; its quote and author are the quote and author fields
\* of the body when the GET returned 200 with a body that parses to a JSON
\* object (a field the object lacks shows as None), and otherwise (exception,
\* timeout, non-200 status, unparseable body, or a body that parses to
\* anything but an object) the quote and author of one and the same entry of
\* the fallback list, the one random.choice drew.
C12_QuotePairing ==
    call.action = "action_get_motivational_quote" =>
        /\ call.raised = "none"
        /\ Len(call.requests) = 1
        /\ Len(call.messages) = 1
        /\ IsQuoteMessage(call.messages[1])
        /\ IF /\ call.http.kind = "response"
              /\ call.http.status_code = 200
              /\ call.http.body.json = "object"
           THEN /\ call.draws = <<>>
                /\ QuoteOf(call.messages[1]) = ServiceValue(call.http.body.fields, "quote")
                /\ AuthorOf(call.messages[1]) = ServiceValue(call.http.body.fields, "author")
           ELSE /\ Len(call.draws) = 1
                /\ call.draws[1].fn = "choice"
                /\ call.draws[1].index \in DOMAIN fallback_quotes
                /\ QuoteOf(call.messages[1]) = fallback_quotes[call.draws[1].index].quote
                /\ AuthorOf(call.messages[1]) = fallback_quotes[call.draws[1].index].author

\* the quote service answered 200 with a JSON array and the user got the
\* second fallback quote with its own author
C12_Witness ==
    /\ call.action = "action_get_motivational_quote"
    /\ call.http.kind = "response"
    /\ call.http.status_code = 200
    /\ call.http.body = JsonArray
    /\ QuoteOf(call.messages[1]) = "You are stronger than you think."
    /\ AuthorOf(call.messages[1]) = "Unknown"

\* the quote service answered with a quote and the user got it
C12_ServiceQuote ==
    /\ call.action = "action_get_motivational_quote"
    /\ QuoteOf(call.messages[1]) = "Keep going."
    /\ AuthorOf(call.messages[1]) = "Anonymous"

\* the framing prefix of each category
PrefixFor(m) ==
    CASE m = sadness -> "I understand you might be feeling down. Here's something that might help: "
      [] m = anger   -> "I can sense you're frustrated. Take a deep breath and consider this: "
      [] m = fear    -> "It's okay to feel anxious sometimes. Remember: "
      [] m = joy     -> "I'm glad you're feeling positive! Here's more inspiration: "
      [] OTHER       -> "Here's a thought for you: "

\* C13: in ActionGetMotivationalQuote.run the framing prefix is chosen over
\* the normalized emotion: a synonym gets the prefix of its category (sad as
\* sadness, angry as anger, anxious and afraid as fear, happy and excited as
\* joy) and every other label outside the four categories the generic one.
C13_PrefixOverNormalizedEmotion ==
    call.action = "action_get_motivational_quote" =>
        /\ Len(call.messages) = 1
        /\ call.messages[1][1] = PrefixFor(Canonical(call.emotion))

\* the tagger said "Anxious" and the quote came with the generic prefix
C13_AnxiousGetsGenericPrefix ==
    /\ call.action = "action_get_motivational_quote"
    /\ call.emotion = anxious
    /\ call.messages[1][1] = "Here's a thought for you: "

\* the last handler took the predefined-response branch
PredefinedTaken ==
    /\ call.action \in {"action_process_message", "action_fallback_api"}
    /\ call.draws # <<>>
    /\ RatLess(call.draws[1], [num |-> 7, den |-> 10])
    /\ call.emotion \in DOMAIN EMPATHETIC_RESPONSES

\* the one request of the last handler did not deliver what the handler asked for
RequestFailed ==
    /\ call.requests # <<>>
    /\ CASE call.action \in {"action_process_message", "action_fallback_api"} -> RemoteFailed
         [] call.action = "action_get_motivational_quote" ->
                ~ (/\ call.http.kind = "response"
                   /\ call.http.status_code = 200
                   /\ call.http.body.json = "object")
         [] call.action = "action_check_server_status" ->
                ~ (call.http.kind = "response" /\ call.http.status_code = 200)
         [] OTHER -> FALSE

\* what the last handler did after its request was its fallback
FallbackFollows ==
    /\ call.raised = "none"
    /\ CASE call.action = "action_process_message" ->
                /\ call.messages # <<>>
                /\ call.emotion \in DOMAIN EMPATHETIC_RESPONSES
                /\ \A i \in DOMAIN call.messages :
                      \E x \in Range(EMPATHETIC_RESPONSES[call.emotion]) : call.messages[i] = <<x>>
         [] call.action = "action_fallback_api" ->
                call.messages \in {<<NotSure>>, <<Trouble>>, <<NotSure, Trouble>>}
         [] call.action = "action_get_motivational_quote" ->
                Len(call.messages) = 1 /\ FallbackPair(call.messages[1])
         [] call.action = "action_check_server_status" ->
                /\ call.messages = <<>>
                /\ call.events = <<[event |-> "slot", name |-> "server_connection_status",
                                     value |-> disconnected]>>
         [] OTHER -> FALSE

\* each handler invocation issues at most one outbound request, and
\* ActionProcessMessage and ActionFallbackAPI issue theirs only when the
\* predefined-response branch was not taken
AtMostOneRequest ==
    call.action # "none" =>
        /\ Len(call.requests) <= 1
        /\ PredefinedTaken => call.requests = <<>>

\* C14: no retry: each handler invocation issues at most one outbound HTTP
\* request; a failed request is followed by the fallback message or slot
\* value and by no second request; ActionProcessMessage and ActionFallbackAPI
\* issue the remote request only when the predefined-response branch was not
\* taken.
C14_NoRetry ==
    call.action # "none" =>
        /\ Len(call.requests) <= 1
        /\ PredefinedTaken => call.requests = <<>>
        /\ RequestFailed => FallbackFollows

\* every invocation that breaks the rule is one that raised KeyError
NoRetryUnlessKeyError ==
    (call.action # "none" /\ call.raised = "none") =>
        /\ Len(call.requests) <= 1
        /\ PredefinedTaken => call.requests = <<>>
        /\ RequestFailed => FallbackFollows

\* a request failed and the handler answered with its fallback
C14_FailedThenFallback ==
    /\ call.action = "action_fallback_api"
    /\ RequestFailed
    /\ FallbackFollows

\* a message that carries a technique: response, lead-in, technique
CarriesTechnique(msg) == Len(msg) > 1

\* the second random.random() of the predefined branch came out below 0.5
TechniqueDrawn ==
    /\ Len(call.draws) >= 3
    /\ call.draws[3].fn = "random"
    /\ RatLess(call.draws[3], [num |-> 1, den |-> 2])

\* C16: in ActionProcessMessage's low-confidence path a technique is appended
\* only in the predefined-response branch and only for sadness, anger and
\* fear (there, exactly when the second draw is below 0.5), and it is a member
\* of THERAPY_TECHNIQUES of that same emotion; for joy and neutral, and on the
\* remote branch, whether the call succeeds or fails, no message carries one.
C16_TechniqueRule ==
    call.action = "action_process_message" =>
        /\ \A i \in DOMAIN call.messages :
              CarriesTechnique(call.messages[i]) =>
                  /\ PredefinedTaken
                  /\ call.requests = <<>>
                  /\ call.emotion \in {sadness, anger, fear}
                  /\ TechniqueDrawn
                  /\ Len(call.messages) = 1
                  /\ Len(call.messages[i]) = 3
                  /\ call.messages[i][1] \in Range(EMPATHETIC_RESPONSES[call.emotion])
                  /\ call.messages[i][2] = "\n\nHere's a technique that might help: "
                  /\ call.messages[i][3] \in Range(THERAPY_TECHNIQUES[call.emotion])
        /\ (PredefinedTaken /\ call.emotion \in {sadness, anger, fear} /\ TechniqueDrawn) =>
              (Len(call.messages) = 1 /\ CarriesTechnique(call.messages[1]))

\* a scared user got a predefined response with a technique for fear
C16_Witness ==
    /\ call.action = "action_process_message"
    /\ call.emotion = fear
    /\ Len(call.messages) = 1
    /\ CarriesTechnique(call.messages[1])
    /\ call.messages[1][3] \in Range(THERAPY_TECHNIQUES[fear])

\* a joyful user got a predefined response, without a technique
C16_JoyWithoutTechnique ==
    /\ call.action = "action_process_message"
    /\ call.emotion = joy
    /\ PredefinedTaken
    /\ Len(call.messages) = 1
    /\ ~ CarriesTechnique(call.messages[1])

\* the handlers that detect the emotion of the turn's text
Detecting ==
    {"action_get_motivational_quote", "action_process_message", "action_fallback_api"}

\* the last handler was a detecting one and it returned
DetectingReturned == call.action \in Detecting /\ call.raised = "none"

\* a returning detecting handler returns the one event
\* SlotSet(detected_emotion, e), e the label detect_emotion returned for the
\* text of the turn, as returned; the slot then holds e
WritesDetectedLabel ==
    DetectingReturned =>
        /\ det.op = "detect_emotion"
        /\ det.text = latest_message.text
        /\ det.ret = detect_emotion(emotion_model, latest_message.text, tagger_output).ret
        /\ call.events =
              <<[event |-> "slot", name |-> "detected_emotion", value |-> det.ret.emotion]>>
        /\ slots.detected_emotion = det.ret.emotion

\* the other two handlers return no event for detected_emotion
OthersLeaveEmotion ==
    call.action \in {"action_check_server_status", "action_suggest_coping_strategy"} =>
        \A i \in DOMAIN call.events : call.events[i].name # "detected_emotion"

\* the slot changes only in the step of a returning detecting handler
OnlyDetectingWrites ==
    slots'.detected_emotion # slots.detected_emotion =>
        /\ call'.action \in Detecting
        /\ call'.raised = "none"
        /\ slots'.detected_emotion = det'.ret.emotion

\* what holds of the invocations that return: they write the label, the
\* other two handlers write none, and the slot changes in no other step
ReturningInvocationsWrite ==
    /\ [](WritesDetectedLabel /\ OthersLeaveEmotion)
    /\ [][OnlyDetectingWrites]_vars

\* after a detecting handler has run, the slot holds the label detect_emotion
\* returned for the text of that turn
HoldsLatestLabel ==
    call.action \in Detecting =>
        /\ det.op = "detect_emotion"
        /\ det.text = latest_message.text
        /\ slots.detected_emotion = det.ret.emotion

\* the slot changes only in the step of a detecting handler
OnlyDetectingTurnsWrite ==
    slots'.detected_emotion # slots.detected_emotion => call'.action \in Detecting

\* C17: every returning invocation of ActionGetMotivationalQuote,
\* ActionProcessMessage and ActionFallbackAPI returns exactly one event,
\* SlotSet(detected_emotion, e), e the un-normalized label detect_emotion
\* returned for the turn's text; ActionCheckServerStatus and
\* ActionSuggestCopingStrategy never write detected_emotion; so across any
\* sequence of invocations the slot always holds the label of the most
\* recent emotion-detecting turn.
C17_SlotHoldsLatestLabel ==
    /\ [](WritesDetectedLabel /\ OthersLeaveEmotion /\ HoldsLatestLabel)
    /\ [][OnlyDetectingTurnsWrite]_vars

\* a turn labelled "disgust" went through ActionProcessMessage.run, which
\* raised KeyError: the slot still holds the label of the turn before
C17_StaleLabel ==
    /\ call.action = "action_process_message"
    /\ call.raised = "KeyError"
    /\ det.ret.emotion = <<100, 105, 115, 103, 117, 115, 116>>   \* "disgust"
    /\ slots.detected_emotion = sadness

\* a turn later the status handler ran and the slot still holds the label
\* "anxious", as the tagger gave it
C17_Witness ==
    /\ call.action = "action_check_server_status"
    /\ det = NoDetect
    /\ slots.detected_emotion = anxious
    /\ slots.server_connection_status = connected

\* ActionProcessMessage.run stored the label on its high-confidence path
C17_HighConfidenceWrites ==
    /\ call.action = "action_process_message"
    /\ ~ LowConfidence
    /\ call.messages = <<>>
    /\ slots.detected_emotion = sadness

-----------------------------------------------------------------------------
(* Properties of the launcher *)

\* C15: once the interrupt handler is registered, an interrupt at any point
\* of main, and any exception inside main, ends with terminate() called on
\* every child process started so far and the launcher exited: when the
\* launcher has exited through signal_handler no started child is without a
\* terminate call.
C15_StartedChildrenTerminated ==
    main_pc = "exit" => children \subseteq terminated

\* the interrupt arrived between Popen and processes.append: the rasa server
\* runs on after the launcher has exited
C15_ChildLeftRunning ==
    /\ main_pc = "exit"
    /\ process = <<"Popen", "rasa">>
    /\ <<"Popen", "rasa">> \in children \ terminated
    /\ terminated = {<<"Popen", "actions">>}

\* what the handler does guarantee: every child in `processes` is terminated
\* at exit, and a child without a terminate call is the one whose start was
\* interrupted
ListedChildrenTerminated ==
    main_pc = "exit" =>
        /\ Range(processes) \subseteq terminated
        /\ children \ terminated \subseteq {process}

\* an interrupt, or an exception in main, leads to the exit of the launcher
HandlerLeadsToExit == (frames # <<>>) ~> (main_pc = "exit")

\* all three servers were started and then interrupted in the keep-alive loop
AllStartedThenInterrupted ==
    /\ main_pc = "exit"
    /\ processes = <<<<"Popen", "actions">>, <<"Popen", "rasa">>, <<"Popen", "frontend">>>>
    /\ terminated = {<<"Popen", "actions">>, <<"Popen", "rasa">>, <<"Popen", "frontend">>}

====
